---- MODULE Spec2Model ----
(***************************************************************************)
(* Horizon auto-reporting: the GET /api/data time-window handlers of the   *)
(* three server variants, the client's RF metric derivation, the server's  *)
(* analysis (calculateStats, calculateTrend, the assessments), the         *)
(* client's narration, the server's start-up (initializeDB), the report    *)
(* editor's narration storage and the dashboard's data requests, as state  *)
(* machines.                                                               *)
(*                                                                         *)
(* Time.  Every instant is a number of hours of server-local wall-clock    *)
(* time since day 0, 00:00; the last hour of a day stands for its          *)
(* 23:59:59.999.  The DATETIME column `time` holds local wall clock, and   *)
(* the driver binds a JS Date as local wall clock, so a bound parameter is *)
(* compared as it stands.  tz is the server's UTC offset in hours.         *)
(*                                                                         *)
(* Numbers.  A JS/SQL number is a record [k, v]: k = "fin" with v the      *)
(* value in 1/Scale units, or "nan", "inf" (v the sign) or "null".         *)
(***************************************************************************)
EXTENDS Integers, Sequences, FiniteSets, TLC

VARIABLES table, now, tz, resp, reading, derived, values, stats,
          trend, body, analysis, processed, narration,
          db, call, events, server, port,
          component, scope, mounted, groupedStations, withData, narrations, stored,
          written, everStored, generating, inflight, error,
          selected, fetchData, requests, issued, view

vars == <<table, now, tz, resp, reading, derived, values, stats,
          trend, body, analysis, processed, narration,
          db, call, events, server, port,
          component, scope, mounted, groupedStations, withData, narrations, stored,
          written, everStored, generating, inflight, error,
          selected, fetchData, requests, issued, view>>

\* What the server's start-up writes.
startup == <<db, call, events, server, port>>

\* What the report editor component writes.
editor == <<component, scope, mounted, groupedStations, withData, narrations, stored,
            written, everStored, generating, inflight, error>>

\* What the dashboard (App) writes.
dashboard == <<selected, fetchData, requests, issued, view>>

\* What the request handlers and the report computations leave alone.
outside == <<startup, editor, dashboard>>

\* What the analysis and narration steps write.
reports == <<trend, body, analysis, processed, narration>>

\* What the request handlers and the report computations write.
measured == <<table, now, tz, resp, reading, derived, values, stats, reports>>

(***************************** bounds ***************************************)
MaxClockSteps == 1
MaxPower == 6
MaxLen == 3
MaxVal == 3
MaxSeries == 11
MaxSamples == 1
MaxReadings == 2

(***************************** numbers **************************************)
Scale == 10 * 10 * 10

Fin(v) == [k |-> "fin", v |-> v]
NaN == [k |-> "nan", v |-> 0]
Inf(sign) == [k |-> "inf", v |-> sign]
Null == [k |-> "null", v |-> 0]
Undefined == [k |-> "undefined", v |-> 0]

IsFin(x) == x.k = "fin"

Abs(n) == IF n < 0 THEN -n ELSE n

\* Division of integers rounding toward zero, as a fixed-point quotient.
QuotS(a, b) == IF (a < 0) = (b < 0) THEN (Abs(a) * Scale) \div Abs(b)
               ELSE -((Abs(a) * Scale) \div Abs(b))

RECURSIVE IsqrtBits(_, _, _)
\* Largest s with s*s <= n, found bit by bit below the power of two b.
IsqrtBits(n, s, b) ==
    IF b = 0 THEN s
    ELSE IF (s + b) * (s + b) <= n THEN IsqrtBits(n, s + b, b \div 2)
         ELSE IsqrtBits(n, s, b \div 2)

\* Math.sqrt / SQRT of a non-negative integer, truncated.
Isqrt(n) == IsqrtBits(n, 0, 16384)

\* Math.sqrt(reflected / forward) / SQRT(Analog2Value/Analog1Value) for
\* forward > 0 and reflected >= 0, in 1/Scale units.
SqrtRatio(reflected, forward) == Isqrt((reflected * Scale * Scale) \div forward)

RECURSIVE LogNorm(_, _, _)
\* num/den = m * 10^k with 1 <= m < 10: the decimal exponent k and the
\* mantissa m in 1/Scale units.
LogNorm(num, den, k) ==
    IF num >= 10 * den THEN LogNorm(num, den * 10, k + 1)
    ELSE IF num < den THEN LogNorm(num * 10, den, k - 1)
    ELSE [k |-> k, m |-> (num * Scale) \div den]

RECURSIVE LogFrac(_, _, _)
\* log10 of the mantissa m, one binary digit per squaring, w the weight of
\* the next digit in 1/Scale units.
LogFrac(m, w, acc) ==
    IF w = 0 THEN acc
    ELSE LET m2 == (m * m) \div Scale
         IN  IF m2 >= 10 * Scale THEN LogFrac(m2 \div 10, w \div 2, acc + w)
             ELSE LogFrac(m2, w \div 2, acc)

\* Math.log10 / LOG10 of the rational num/den (den > 0).
Log10(num, den) ==
    IF num < 0 THEN NaN
    ELSE IF num = 0 THEN Inf(-1)
    ELSE LET n == LogNorm(num, den, 0)
         IN  Fin(n.k * Scale + LogFrac(n.m, Scale \div 2, 0))

\* c * x for an integer c # 0 and a number x.
Times(c, x) ==
    CASE x.k = "fin" -> Fin(c * x.v)
      [] x.k = "inf" -> Inf(IF c < 0 THEN -x.v ELSE x.v)
      [] OTHER -> x

\* (1 + s) / (1 - s) in IEEE arithmetic, s >= 0 in 1/Scale units.
OnePlusOverOneMinus(s) ==
    IF s = Scale THEN Inf(1) ELSE Fin(QuotS(Scale + s, Scale - s))

(***************************** time *****************************************)
HoursPerDay == 24
Days7 == 7
Days30 == 30

At(day, hour) == day * HoursPerDay + hour

\* DATE(x): the calendar day of a local instant.
DateOf(t) == t \div HoursPerDay

\* Date.prototype.setHours(23, 59, 59, 999): the end of t's local day.
SetHoursEndOfDay(t) == DateOf(t) * HoursPerDay + (HoursPerDay - 1)

NoTime == -1

(* A date string of the query string: absent, unparseable, a date-only    *)
(* form "YYYY-MM-DD" or a date-time form "YYYY-MM-DDTHH:mm".              *)
NoDate == [kind |-> "absent", day |-> 0, hour |-> 0]
BadDate == [kind |-> "bad", day |-> 0, hour |-> 0]
DateOnly(d) == [kind |-> "date", day |-> d, hour |-> 0]
DateTime(d, h) == [kind |-> "datetime", day |-> d, hour |-> h]

\* new Date(string): a date-only form is UTC midnight, which is tz hours
\* into the local day; a date-time form without offset is local time.
\* NoTime stands for the Invalid Date (getTime() is NaN).
NewDate(str) ==
    CASE str.kind = "date" -> At(str.day, 0) + tz
      [] str.kind = "datetime" -> At(str.day, str.hour)
      [] OTHER -> NoTime

IsNaNDate(t) == t = NoTime

(***************************** the table ************************************)
Nodes == {"n1", "n2"}
UnknownNode == "n9"
BaseStations == {"b1", "b2"}
NoBaseStation == "undefined"

Row(id, node, bs, day, hour, fwd, refl) ==
    [id |-> id, node |-> node, bs |-> bs, time |-> At(day, hour),
     fwd |-> fwd, refl |-> refl]

\* The rows node_status_table may come to hold.
Candidates ==
    { Row(1, "n1", "b1", 50, 6, 100, 1),
      Row(2, "n1", "b1", 50, 20, 100, 100),
      Row(3, "n1", "b2", 51, 9, 100, 400),
      Row(4, "n1", "b1", 46, 12, 0, 5),
      Row(5, "n1", "b2", 51, 9, 4, 1),
      Row(6, "n1", "b1", 10, 3, 100, 25),
      Row(7, "n2", "b1", 49, 15, 9, 0) }

NodeRows(node) == {r \in table : r.node = node}

MaxTime(S) == CHOOSE t \in {r.time : r \in S} : \A r \in S : r.time <= t

\* SELECT MAX(time) ... WHERE NodeName = ?  (NULL, here NoTime, on no rows)
LatestTime(node) == IF NodeRows(node) = {} THEN NoTime ELSE MaxTime(NodeRows(node))

RECURSIVE OrderByTimeDesc(_)
\* ORDER BY time DESC: every order of the rows with non-increasing time
\* (rows of equal time come in an order the engine chooses).
OrderByTimeDesc(S) ==
    IF S = {} THEN {<<>>}
    ELSE UNION { { <<r>> \o rest : rest \in OrderByTimeDesc(S \ {r}) }
                 : r \in {x \in S : x.time = MaxTime(S)} }

(***************************** SQL projections ******************************)
\* ROUND(x, 2): to a hundredth, half away from zero; NULL stays NULL.
Round2(x) ==
    IF x.k # "fin" THEN x
    ELSE LET q == ((Abs(x.v) * 100) \div Scale)
             rem == (Abs(x.v) * 100) % Scale
             up == IF 2 * rem >= Scale THEN q + 1 ELSE q
         IN  Fin((IF x.v < 0 THEN -up ELSE up) * (Scale \div 100))

\* CASE WHEN Analog1Value > 0 AND Analog2Value > 0
\*      THEN (1 + SQRT(a2/a1))/(1 - SQRT(a2/a1)) ELSE 1 END, rounded;
\* a division by zero is NULL in MySQL.
SqlVSWR(a1, a2) ==
    Round2(IF a1 > 0 /\ a2 > 0
           THEN LET s == SqrtRatio(a2, a1)
                IN  IF s = Scale THEN Null ELSE Fin(QuotS(Scale + s, Scale - s))
           ELSE Fin(Scale))

\* CASE WHEN ... THEN -20 * LOG10(SQRT(a2/a1)) ELSE 0 END, rounded.
SqlReturnLoss(a1, a2) ==
    Round2(IF a1 > 0 /\ a2 > 0
           THEN Times(-20, Log10(SqrtRatio(a2, a1), Scale))
           ELSE Fin(0))

\* A row as part_000 / part_001 select it.
SelectRF(r) ==
    [id |-> r.id, node |-> r.node, bs |-> r.bs, time |-> r.time,
     fwd |-> r.fwd, refl |-> r.refl,
     vswr |-> SqlVSWR(r.fwd, r.refl), rl |-> SqlReturnLoss(r.fwd, r.refl)]

\* A row as server.js selects it (no derived columns).
SelectRaw(r) ==
    [id |-> r.id, node |-> r.node, bs |-> r.bs, time |-> r.time,
     fwd |-> r.fwd, refl |-> r.refl, vswr |-> Undefined, rl |-> Undefined]

(***************************** GET /api/data ********************************)
Periods == {"1h", "24h", "7d", "30d", "custom", "bogus"}
BsInputs == {NoBaseStation, "", "b1", "b2"}
DateInputs == {NoDate, BadDate, DateOnly(50), DateOnly(51),
               DateTime(50, 8), DateTime(50, 10)}

\* JS truthiness of an optional string.
Truthy(str) == str # NoBaseStation /\ str # ""
TruthyDate(str) == str.kind # "absent"

Request(node, bs, period, sd, ed) ==
    [node |-> node, bs |-> bs, period |-> period, startDate |-> sd, endDate |-> ed]

NoRequest == Request("", NoBaseStation, "", NoDate, NoDate)

\* The outcome of one request: the HTTP status, the error, the rows of a
\* 200, whether the data query was executed, the bounds it was given
\* (NoTime: none), the instant the window hangs on, and the numbers of
\* placeholders and of bound values of the data query.
Response(variant, req) ==
    [variant |-> variant, req |-> req, status |-> 0, error |-> "", rows |-> <<>>,
     queried |-> FALSE, start |-> NoTime, end |-> NoTime, anchor |-> NoTime,
     placeholders |-> 0, params |-> 0]

NoResponse == Response("", NoRequest)

\* ---- server.js
ThresholdServer(period, latestDate) ==
    CASE period = "7d" -> latestDate - Days7 * HoursPerDay
      [] period = "30d" -> latestDate - Days30 * HoursPerDay
      [] OTHER -> latestDate - HoursPerDay

DataServer(req) ==
    LET base == Response("server.js", req)
        latestTime == LatestTime(req.node)
    IN  IF latestTime = NoTime
        THEN {[base EXCEPT !.status = 200]}
        ELSE LET timeThreshold == ThresholdServer(req.period, latestTime)
                 sel == {r \in NodeRows(req.node) :
                            /\ Truthy(req.bs) => r.bs = req.bs
                            /\ r.time >= timeThreshold}
                 n == IF Truthy(req.bs) THEN 3 ELSE 2
             IN  { [base EXCEPT !.status = 200, !.rows = [i \in 1..Len(rows) |-> SelectRaw(rows[i])],
                                !.queried = TRUE, !.start = timeThreshold,
                                !.anchor = latestTime,
                                !.placeholders = n, !.params = n]
                   : rows \in OrderByTimeDesc(sel) }

\* ---- part_000 (the variant with custom ranges)
\* The time-window resolution: [error, start, end, anchor].
Window000(req) ==
    IF req.period = "custom" /\ TruthyDate(req.startDate) /\ TruthyDate(req.endDate)
    THEN LET startTime == NewDate(req.startDate)
             parsedEnd == NewDate(req.endDate)
             endTime == IF IsNaNDate(parsedEnd) THEN NoTime
                        ELSE SetHoursEndOfDay(parsedEnd)
         IN  IF IsNaNDate(startTime) \/ IsNaNDate(endTime)
             THEN [error |-> "Invalid date format", start |-> NoTime,
                   end |-> NoTime, anchor |-> NoTime]
             ELSE IF endTime < startTime
             THEN [error |-> "End date must be after start date", start |-> NoTime,
                   end |-> NoTime, anchor |-> NoTime]
             ELSE [error |-> "", start |-> startTime, end |-> endTime,
                   anchor |-> NoTime]
    ELSE CASE req.period = "24h" ->
                [error |-> "", start |-> now - HoursPerDay, end |-> now, anchor |-> now]
           [] req.period = "7d" ->
                [error |-> "", start |-> now - Days7 * HoursPerDay, end |-> now,
                 anchor |-> now]
           [] req.period = "30d" ->
                [error |-> "", start |-> now - Days30 * HoursPerDay, end |-> now,
                 anchor |-> now]
           [] OTHER ->
                [error |-> "Invalid time period", start |-> NoTime, end |-> NoTime,
                 anchor |-> NoTime]

Data000(req) ==
    LET base == Response("part_000", req)
        win == Window000(req)
        resolved == [base EXCEPT !.start = win.start, !.end = win.end,
                                 !.anchor = win.anchor]
    IN  IF NodeRows(req.node) = {}
        THEN {[base EXCEPT !.status = 404, !.error = "Node not found"]}
        ELSE IF win.error # ""
        THEN {[base EXCEPT !.status = 400, !.error = win.error]}
        ELSE IF Truthy(req.bs) /\ {r \in NodeRows(req.node) : r.bs = req.bs} = {}
        THEN {[resolved EXCEPT !.status = 404, !.error = "Base station not found"]}
        ELSE IF LatestTime(req.node) = NoTime
        THEN {[resolved EXCEPT !.status = 404, !.error = "No data found for node"]}
        ELSE IF {r \in NodeRows(req.node) : r.time >= win.start} = {}
        THEN {[resolved EXCEPT !.status = 404,
                               !.error = "No data found for node in the period"]}
        ELSE LET sel == {r \in NodeRows(req.node) :
                            /\ DateOf(r.time) >= DateOf(win.start)
                            /\ DateOf(r.time) <= DateOf(win.end)
                            /\ Truthy(req.bs) => r.bs = req.bs}
                 asked == [resolved EXCEPT
                              !.queried = TRUE,
                              !.placeholders = IF Truthy(req.bs) THEN 4 ELSE 3,
                              !.params = IF req.bs # NoBaseStation THEN 4 ELSE 3]
             IN  IF sel = {}
                 THEN {[asked EXCEPT !.status = 404, !.error = "No data found"]}
                 ELSE {[asked EXCEPT !.status = 200, !.rows = [i \in 1..Len(rows) |-> SelectRF(rows[i])]]
                       : rows \in OrderByTimeDesc(sel)}

\* ---- part_001 (the variant with the 1h period)
Window001(req) ==
    CASE req.period = "1h" ->
            [error |-> "", start |-> now - 1, end |-> NoTime, anchor |-> now]
      [] req.period = "24h" ->
            [error |-> "", start |-> now - HoursPerDay, end |-> NoTime, anchor |-> now]
      [] req.period = "7d" ->
            [error |-> "", start |-> now - Days7 * HoursPerDay, end |-> NoTime,
             anchor |-> now]
      [] req.period = "30d" ->
            [error |-> "", start |-> now - Days30 * HoursPerDay, end |-> NoTime,
             anchor |-> now]
      [] OTHER ->
            [error |-> "Invalid time period", start |-> NoTime, end |-> NoTime,
             anchor |-> NoTime]

\* toISOString().slice(0, 19).replace('T', ' '): the UTC wall clock.
ToISOString(t) == t - tz

Data001(req) ==
    LET base == Response("part_001", req)
        win == Window001(req)
    IN  IF NodeRows(req.node) = {}
        THEN {[base EXCEPT !.status = 404, !.error = "Node not found"]}
        ELSE IF Truthy(req.bs) /\ {r \in NodeRows(req.node) : r.bs = req.bs} = {}
        THEN {[base EXCEPT !.status = 404, !.error = "Base station not found"]}
        ELSE IF win.error # ""
        THEN {[base EXCEPT !.status = 400, !.error = win.error]}
        ELSE LET timeFilter == ToISOString(win.start)
                 nPlace == IF Truthy(req.bs) THEN 3 ELSE 2
                 nParams == IF Truthy(req.bs) THEN 2 ELSE 1
                 sel == {r \in NodeRows(req.node) :
                            /\ Truthy(req.bs) => r.bs = req.bs
                            /\ r.time >= timeFilter}
                 asked == [base EXCEPT !.queried = TRUE, !.start = timeFilter,
                                       !.anchor = win.anchor,
                                       !.placeholders = nPlace, !.params = nParams]
             IN  IF nParams < nPlace
                 THEN {[asked EXCEPT !.status = 500, !.error = "Failed to fetch data"]}
                 ELSE IF sel = {}
                 THEN {[asked EXCEPT !.status = 404, !.error = "No data found"]}
                 ELSE {[asked EXCEPT !.status = 200, !.rows = [i \in 1..Len(rows) |-> SelectRF(rows[i])]]
                       : rows \in OrderByTimeDesc(sel)}

(***************************** metric derivation ****************************)
(* A raw channel value of a row as the client receives it: a number (in  *)
(* whole units), or a missing one (undefined, null, NaN).                *)
Num(p) == [k |-> "num", v |-> p]
IsNum(x) == x.k = "num"

PowerValues == (-2..MaxPower) \cup {25, 100, 400}
RawValues == {Undefined, Null, NaN} \cup {Num(p) : p \in PowerValues}
Readings == [fwd : RawValues, refl : RawValues]

NoReading == [fwd |-> Undefined, refl |-> Undefined]
NoDerived == [by |-> "", vswr |-> Undefined, returnLoss |-> Undefined]

\* x || 0
OrZero(x) == IF IsNum(x) THEN x.v ELSE 0

\* ReportEditor.js, second component: calculateVSWR
calculateVSWR(forward, reflected) ==
    IF forward <= 0 THEN Fin(Scale)
    ELSE IF reflected < 0 THEN NaN
    ELSE OnePlusOverOneMinus(SqrtRatio(reflected, forward))

calculateReturnLossFlipped(forward, reflected) ==
    IF forward <= 0 \/ reflected <= 0 THEN Fin(0)
    ELSE Times(20, Log10(SqrtRatio(reflected, forward), Scale))

\* ReportEditor.js, second component: calculateReturnLoss
calculateReturnLoss(forward, reflected) ==
    IF forward <= 0 \/ reflected <= 0 THEN Fin(0)
    ELSE Times(-20, Log10(SqrtRatio(reflected, forward), Scale))

\* ReportEditor.js, second component: processDataChunk, for one row
processDataChunk(d) ==
    LET forward == OrZero(d.fwd)
        reflected == OrZero(d.refl)
    IN  [by |-> "processDataChunk",
         vswr |-> calculateVSWR(forward, reflected),
         returnLoss |-> calculateReturnLoss(forward, reflected)]

\* x <= 0 in JS: false for undefined and NaN, true for null (which is 0).
LeqZero(x) == (IsNum(x) /\ x.v <= 0) \/ x.k = "null"

\* ReportEditor.js, first component: processedData (vswr, returnLoss), for
\* one row; the channels are read as they come.
processedData(d) ==
    LET guarded == LeqZero(d.fwd) \/ LeqZero(d.refl)
        numeric == IsNum(d.fwd) /\ IsNum(d.refl)
    IN  [by |-> "processedData",
         vswr |-> IF guarded THEN Fin(0)
                  ELSE IF ~numeric THEN NaN
                  ELSE OnePlusOverOneMinus(SqrtRatio(d.refl.v, d.fwd.v)),
         returnLoss |-> IF guarded THEN Fin(0)
                        ELSE IF ~numeric THEN NaN
                        ELSE Times(-10, Log10(d.refl.v, d.fwd.v))]

\* The derived columns of the part_000 / part_001 data query for one row
\* (a NULL channel fails the WHEN and takes the ELSE).
SqlDerived(d) ==
    IF IsNum(d.fwd) /\ IsNum(d.refl)
    THEN [by |-> "sql", vswr |-> SqlVSWR(d.fwd.v, d.refl.v),
          returnLoss |-> SqlReturnLoss(d.fwd.v, d.refl.v)]
    ELSE [by |-> "sql", vswr |-> Round2(Fin(Scale)), returnLoss |-> Round2(Fin(0))]

(***************************** calculateStats *******************************)
Rat(n, d) == [num |-> n, den |-> d]

NoValues == [present |-> FALSE, seq |-> <<>>]
Given(seq) == [present |-> TRUE, seq |-> seq]

RECURSIVE SeqsUpTo(_, _)
SeqsUpTo(S, n) ==
    IF n = 0 THEN {<<>>}
    ELSE LET shorter == SeqsUpTo(S, n - 1)
         IN  shorter \cup {Append(q, x) : q \in {t \in shorter : Len(t) = n - 1}, x \in S}

ValueInputs == {NoValues} \cup {Given(q) : q \in SeqsUpTo(-MaxVal..MaxVal, MaxLen)}

Min2(a, b) == IF b < a THEN b ELSE a
Max2(a, b) == IF b > a THEN b ELSE a

RECURSIVE MinFrom(_, _, _)
MinFrom(seq, i, acc) ==
    IF i > Len(seq) THEN acc ELSE MinFrom(seq, i + 1, Min2(acc, seq[i]))

RECURSIVE MaxFrom(_, _, _)
MaxFrom(seq, i, acc) ==
    IF i > Len(seq) THEN acc ELSE MaxFrom(seq, i + 1, Max2(acc, seq[i]))

\* Math.min(...values), Math.max(...values) of a non-empty array.
MathMin(seq) == MinFrom(seq, 2, seq[1])
MathMax(seq) == MaxFrom(seq, 2, seq[1])

RECURSIVE ReduceSum(_, _, _)
\* values.reduce((a, b) => a + b, 0), from index i.
ReduceSum(seq, i, acc) ==
    IF i > Len(seq) THEN acc ELSE ReduceSum(seq, i + 1, acc + seq[i])

RECURSIVE ReduceSqDev(_, _, _, _, _)
\* values.reduce((sq, val) => sq + (val - avg)^2, 0) with avg = sum/n, in
\* units of 1/n^2: each term is (n*val - sum)^2.
ReduceSqDev(seq, n, sum, i, acc) ==
    IF i > Len(seq) THEN acc
    ELSE ReduceSqDev(seq, n, sum, i + 1,
                     acc + (n * seq[i] - sum) * (n * seq[i] - sum))

\* Math.sqrt of the rational n/d >= 0, in 1/Scale units (to whole units
\* from a thousand up, where the finer root would not fit the word).
SqrtRat(n, d) ==
    LET q == (n * Scale) \div d
    IN  IF q < Scale * Scale THEN Isqrt(q * Scale) ELSE Isqrt(q \div Scale) * Scale

ZeroStats == [min |-> 0, max |-> 0, avg |-> Rat(0, 1), variance |-> Rat(0, 1),
              stdDev |-> 0]

NoStats == [done |-> FALSE, result |-> ZeroStats]

\* The slip of dividing by N - 1 (the sample deviation).
calculateStatsSample(input) ==
    IF ~input.present \/ Len(input.seq) = 0 THEN ZeroStats
    ELSE LET vals == input.seq
             n == Len(vals)
             sum == ReduceSum(vals, 1, 0)
             sq == ReduceSqDev(vals, n, sum, 1, 0)
             d == IF n = 1 THEN 1 ELSE n * n * (n - 1)
         IN  [min |-> MathMin(vals), max |-> MathMax(vals), avg |-> Rat(sum, n),
              variance |-> Rat(sq, d), stdDev |-> SqrtRat(sq, d)]

\* server.js: calculateStats.  avg is the rational sum/n; each
\* (val - avg)^2 is (n*val - sum)^2 / n^2, so their sum over n is sq / n^3.
calculateStats(input) ==
    IF ~input.present \/ Len(input.seq) = 0 THEN ZeroStats
    ELSE LET vals == input.seq
             n == Len(vals)
             sum == ReduceSum(vals, 1, 0)
             sq == ReduceSqDev(vals, n, sum, 1, 0)
         IN  [min |-> MathMin(vals), max |-> MathMax(vals), avg |-> Rat(sum, n),
              variance |-> Rat(sq, n * n * n), stdDev |-> SqrtRat(sq, n * n * n)]

(***************************** calculateTrend ********************************)
\* server.js: values.slice(-10), slice(0, 5) / slice(-5), and the 5 of
\* Math.abs(percentChange) < 5.
RecentWindow == 10
HalfWindow == 5
StablePercent == 5

\* seq.slice(-n) and seq.slice(0, n).
SliceLast(seq, n) ==
    SubSeq(seq, (IF Len(seq) > n THEN Len(seq) - n ELSE 0) + 1, Len(seq))
SliceFirst(seq, n) == SubSeq(seq, 1, IF Len(seq) > n THEN n ELSE Len(seq))

\* (n / d).toFixed(1) for n >= 0, d > 0: the nearest tenth, in 1/Scale units.
ToFixed1(n, d) == Fin(((20 * n + d) \div (2 * d)) * (Scale \div 10))

Insufficient == [label |-> "insufficient", percent |-> Undefined]
Stable == [label |-> "stable", percent |-> Undefined]
Increasing(percent) == [label |-> "increasing", percent |-> percent]
Decreasing(percent) == [label |-> "decreasing", percent |-> percent]

NoTrend == [done |-> FALSE, result |-> Insufficient]

\* The slip of taking a change of exactly 5% for stable.
calculateTrendInclusive(input) ==
    IF ~input.present \/ Len(input.seq) < 2 THEN Insufficient
    ELSE LET recentValues == SliceLast(input.seq, RecentWindow)
             firstHalf == SliceFirst(recentValues, HalfWindow)
             secondHalf == SliceLast(recentValues, HalfWindow)
             s1 == ReduceSum(firstHalf, 1, 0)
             s2 == ReduceSum(secondHalf, 1, 0)
             diff == s2 * Len(firstHalf) - s1 * Len(secondHalf)
             num == diff * 100
             den == Len(secondHalf) * s1
         IN  IF den = 0
             THEN IF diff > 0 THEN Increasing(Inf(1))
                  ELSE Decreasing(IF diff = 0 THEN NaN ELSE Inf(1))
             ELSE IF Abs(num) <= StablePercent * Abs(den) THEN Stable
             ELSE IF (num > 0) = (den > 0)
                  THEN Increasing(ToFixed1(Abs(num), Abs(den)))
                  ELSE Decreasing(ToFixed1(Abs(num), Abs(den)))

\* server.js: calculateTrend.  With firstAvg = s1/l1 and secondAvg = s2/l2,
\* percentChange = (secondAvg - firstAvg) / firstAvg * 100 is the quotient
\* num / den below (the double differs from it by rounding in its last
\* places only).  A zero firstAvg makes it Infinity, -Infinity or NaN:
\* none of them is < 5 in magnitude, and only Infinity is > 0.
calculateTrend(input) ==
    IF ~input.present \/ Len(input.seq) < 2 THEN Insufficient
    ELSE LET recentValues == SliceLast(input.seq, RecentWindow)
             firstHalf == SliceFirst(recentValues, HalfWindow)
             secondHalf == SliceLast(recentValues, HalfWindow)
             s1 == ReduceSum(firstHalf, 1, 0)
             s2 == ReduceSum(secondHalf, 1, 0)
             diff == s2 * Len(firstHalf) - s1 * Len(secondHalf)
             num == diff * 100
             den == Len(secondHalf) * s1
         IN  IF den = 0
             THEN IF diff > 0 THEN Increasing(Inf(1))
                  ELSE Decreasing(IF diff = 0 THEN NaN ELSE Inf(1))
             ELSE IF Abs(num) < StablePercent * Abs(den) THEN Stable
             ELSE IF (num > 0) = (den > 0)
                  THEN Increasing(ToFixed1(Abs(num), Abs(den)))
                  ELSE Decreasing(ToFixed1(Abs(num), Abs(den)))

\* The levels a metric's samples move between, a pair at a time.
Palettes == {{0, 1}, {1, 2}, {4, 5}, {-2, -1}}

Range(seq) == {seq[i] : i \in 1..Len(seq)}

(***************************** POST /api/analyze ****************************)
\* stats.avg < c and stats.avg > c for the rational avg (den > 0).
Lt(r, c) == r.num < c * r.den
Gt(r, c) == r.num > c * r.den

\* (n / d).toFixed(2) for d > 0: the nearest hundredth, in 1/Scale units.
ToFixed2(n, d) ==
    LET q == Abs(n) \div d
        r == Abs(n) % d
        h == 100 * q + (200 * r + d) \div (2 * d)
    IN  (IF n < 0 THEN -h ELSE h) * (Scale \div 100)

\* The slip of putting the boundary 50 in the better band.
getLatencyAssessmentInclusive(st) ==
    IF ~Gt(st.avg, 50) THEN "excellent network responsiveness"
    ELSE IF Lt(st.avg, 100) THEN "good network performance"
    ELSE IF Lt(st.avg, 200) THEN "moderate network congestion"
    ELSE "significant network delays"

\* server.js: getLatencyAssessment
getLatencyAssessment(st) ==
    IF Lt(st.avg, 50) THEN "excellent network responsiveness"
    ELSE IF Lt(st.avg, 100) THEN "good network performance"
    ELSE IF Lt(st.avg, 200) THEN "moderate network congestion"
    ELSE "significant network delays"

\* server.js: getReliabilityAssessment
getReliabilityAssessment(st) ==
    IF Lt(st.avg, 1) THEN "excellent reliability"
    ELSE IF Lt(st.avg, 3) THEN "acceptable ranges"
    ELSE IF Lt(st.avg, 5) THEN "stability issues"
    ELSE "significant network problems"

\* server.js: getSignalAssessment
getSignalAssessment(st) ==
    IF Gt(st.avg, -50) THEN "excellent"
    ELSE IF Gt(st.avg, -70) THEN "good"
    ELSE IF Gt(st.avg, -85) THEN "adequate"
    ELSE "weak"

Optimally == [optimal |-> TRUE, issues |-> <<>>]
RequiresAttention(issues) == [optimal |-> FALSE, issues |-> issues]

\* The slip of pushing the signal issue before the packet-loss issue.
getOverallAssessmentSwapped(st) ==
    LET issues == (IF Gt(st.voltage.avg, 100) THEN <<"high latency">> ELSE <<>>)
                  \o (IF Lt(st.power.avg, -80) THEN <<"weak signal strength">> ELSE <<>>)
                  \o (IF Gt(st.current.avg, 3) THEN <<"significant packet loss">> ELSE <<>>)
    IN  IF Len(issues) = 0 THEN Optimally ELSE RequiresAttention(issues)

\* server.js: getOverallAssessment (issues.join(', ') keeps the push order)
getOverallAssessment(st) ==
    LET issues == (IF Gt(st.voltage.avg, 100) THEN <<"high latency">> ELSE <<>>)
                  \o (IF Gt(st.current.avg, 3) THEN <<"significant packet loss">> ELSE <<>>)
                  \o (IF Lt(st.power.avg, -80) THEN <<"weak signal strength">> ELSE <<>>)
    IN  IF Len(issues) = 0 THEN Optimally ELSE RequiresAttention(issues)

\* data.voltage || []  (an empty array is truthy)
OrEmpty(entry) == IF entry.present THEN entry ELSE Given(<<>>)

\* One section of the narration: the figures as printed and the sentences.
Section(st, tr, assessment) ==
    [avg |-> ToFixed2(st.avg.num, st.avg.den), max |-> ToFixed2(st.max, 1),
     min |-> ToFixed2(st.min, 1), trend |-> tr, assessment |-> assessment]

\* server.js: generateAnalysis, for data an object
generateAnalysis(baseStation, data) ==
    LET st == [voltage |-> calculateStats(OrEmpty(data.voltage)),
               current |-> calculateStats(OrEmpty(data.current)),
               power |-> calculateStats(OrEmpty(data.power))]
        trends == [voltage |-> calculateTrend(OrEmpty(data.voltage)),
                   current |-> calculateTrend(OrEmpty(data.current)),
                   power |-> calculateTrend(OrEmpty(data.power))]
    IN  [baseStation |-> baseStation,
         latency |-> Section(st.voltage, trends.voltage, getLatencyAssessment(st.voltage)),
         reliability |-> Section(st.current, trends.current,
                                 getReliabilityAssessment(st.current)),
         signal |-> Section(st.power, trends.power, getSignalAssessment(st.power)),
         overall |-> getOverallAssessment(st)]

\* The measurements a request may carry (ms, %, dBm).
LatencyValues == {49, 50, 99, 100, 101, 199, 200}
LossValues == {0, 1, 2, 3, 4, 5}
SignalValues == {-40, -50, -60, -70, -82, -85, -90}

\* An entry of data: absent, or an array of len values.
Entries(S, len) == {NoValues} \cup {Given(q) : q \in {s \in SeqsUpTo(S, len) : Len(s) = len}}

NoData == [kind |-> "absent", voltage |-> NoValues, current |-> NoValues, power |-> NoValues]
ScalarData == [kind |-> "scalar", voltage |-> NoValues, current |-> NoValues,
               power |-> NoValues]

\* req.body.data: absent, not an object, or an object whose arrays (those
\* it has) are of one length, as the client's processed data are.
DataInputs ==
    {NoData, ScalarData}
    \cup UNION { [kind : {"object"}, voltage : Entries(LatencyValues, len),
                  current : Entries(LossValues, len),
                  power : Entries(SignalValues, len)] : len \in 0..MaxSamples }

NoBody == [baseStation |-> "", data |-> NoData]
Bodies == [baseStation : {"", "b1"}, data : DataInputs]

NoNarration == [kind |-> "none"]
NoAnalysis == [status |-> 0, error |-> "", narration |-> NoNarration]

\* server.js: app.post('/api/analyze')
Analyze(b) ==
    IF b.baseStation = "" \/ b.data.kind = "absent"
    THEN [status |-> 400, error |-> "Missing required data", narration |-> NoNarration]
    ELSE IF b.data.kind # "object"
    THEN [status |-> 500, error |-> "Failed to analyze data: Invalid data format",
          narration |-> NoNarration]
    ELSE [status |-> 200, error |-> "",
          narration |-> [kind |-> "analysis"] @@ generateAnalysis(b.baseStation, b.data)]

(***************************** getMetricInsights ****************************)
\* The label of no reading: maxTime: '' of the empty case.
NoLabel == 0

\* values.lastIndexOf(x): the slip of taking the latest occurrence.
LastIndexOf(seq, x) ==
    CHOOSE i \in 1..Len(seq) : seq[i] = x /\ \A j \in (i + 1)..Len(seq) : seq[j] # x

\* values.indexOf(x), for x an element of values (1-based here).
IndexOf(seq, x) ==
    CHOOSE i \in 1..Len(seq) : seq[i] = x /\ \A j \in 1..(i - 1) : seq[j] # x

RECURSIVE ReduceDiffs(_, _, _)
\* recentValues.reduce((acc, curr, i) => i === 0 ? 0 : acc + (curr - recentValues[i - 1]), 0)
ReduceDiffs(seq, i, acc) ==
    IF i > Len(seq) THEN acc
    ELSE ReduceDiffs(seq, i + 1, IF i = 1 THEN 0 ELSE acc + (seq[i] - seq[i - 1]))

\* parseFloat(((last - first) / first * 100).toFixed(2)), values in 1/Scale.
ChangeRate(first, last) ==
    IF first = 0
    THEN IF last = 0 THEN NaN ELSE Inf(IF last > 0 THEN 1 ELSE -1)
    ELSE LET r == ToFixed2(Abs((last - first) * 100), Abs(first))
         IN  Fin(IF ((last - first) < 0) = (first < 0) THEN r ELSE -r)

\* part_002: getMetricInsights(timestamps, values); values are in 1/Scale
\* units, and max, min and average are returned rounded to hundredths.
getMetricInsights(timestamps, vals) ==
    IF Len(vals) = 0
    THEN [max |-> Fin(0), min |-> Fin(0), average |-> Fin(0), maxTime |-> NoLabel,
          minTime |-> NoLabel, trend |-> "No data available", changeRate |-> Fin(0)]
    ELSE LET max == MathMax(vals)
             min == MathMin(vals)
             maxIndex == IndexOf(vals, max)
             minIndex == IndexOf(vals, min)
             recentValues == SliceLast(vals, RecentWindow)
             tr == ReduceDiffs(recentValues, 1, 0)
         IN  [max |-> Fin(ToFixed2(max, Scale)),
              min |-> Fin(ToFixed2(min, Scale)),
              average |-> Fin(ToFixed2(ReduceSum(vals, 1, 0), Len(vals) * Scale)),
              maxTime |-> timestamps[maxIndex],
              minTime |-> timestamps[minIndex],
              trend |-> IF tr > 0 THEN "Increasing"
                        ELSE IF tr < 0 THEN "Decreasing" ELSE "Stable",
              changeRate |-> ChangeRate(vals[1], vals[Len(vals)])]

\* chartUtils.js: getMetricInsights(values, labels).  Of no values the
\* maximum is -Infinity, the average NaN and labels[-1] undefined.
getMetricInsightsLabels(vals, labels) ==
    IF Len(vals) = 0
    THEN [max |-> Inf(-1), min |-> Inf(1), avg |-> NaN,
          maxTime |-> Undefined, minTime |-> Undefined]
    ELSE LET max == MathMax(vals)
             min == MathMin(vals)
         IN  [max |-> Fin(max), min |-> Fin(min),
              avg |-> Fin(ToFixed2(ReduceSum(vals, 1, 0), Len(vals) * Scale)),
              maxTime |-> labels[IndexOf(vals, max)],
              minTime |-> labels[IndexOf(vals, min)]]

Metrics == {"forwardPower", "reflectedPower", "vswr", "returnLoss",
            "temperature", "voltage", "current", "power"}

\* ReportEditor.js: the System Health Assessment lines of the narration.
HealthLines(in) ==
    [vswr |-> IF in.vswr.average.v > (3 * Scale) \div 2
              THEN "High VSWR detected" ELSE "VSWR within acceptable range",
     returnLoss |-> IF in.returnLoss.average.v < -20 * Scale
                    THEN "Good impedance matching" ELSE "Poor return loss",
     temperature |-> IF in.temperature.max.v > 50 * Scale
                     THEN "High temperature detected"
                     ELSE "Temperature within normal range",
     voltage |-> IF in.voltage.average.v < 200 * Scale
                 THEN "Low voltage detected" ELSE "Voltage within normal range",
     current |-> IF in.current.average.v > 10 * Scale
                 THEN "High current detected" ELSE "Current within normal range"]

\* ReportEditor.js: generateAutoNarration, from processedData[station] on.
generateAutoNarration(data) ==
    IF Len(data.timestamps) = 0 THEN [kind |-> "nodata"]
    ELSE LET in == [m \in Metrics |-> getMetricInsights(data.timestamps, data[m])]
         IN  [kind |-> "rf", insights |-> in, health |-> HealthLines(in)]

\* The readings of the fixtures, in 1/Scale units: a healthy one, one on
\* every threshold, one just past every threshold, and a bad one.
Levels ==
    [healthy |-> [forwardPower |-> 100 * Scale, reflectedPower |-> Scale,
                  vswr |-> 1200, returnLoss |-> -25 * Scale, temperature |-> 40 * Scale,
                  voltage |-> 230 * Scale, current |-> 5 * Scale, power |-> 500 * Scale],
     edge |-> [forwardPower |-> 100 * Scale, reflectedPower |-> 4 * Scale,
               vswr |-> 1500, returnLoss |-> -20 * Scale, temperature |-> 50 * Scale,
               voltage |-> 200 * Scale, current |-> 10 * Scale, power |-> 500 * Scale],
     over |-> [forwardPower |-> 100 * Scale, reflectedPower |-> 4 * Scale + 1,
               vswr |-> 1504, returnLoss |-> -20 * Scale - 4,
               temperature |-> 50 * Scale + 4, voltage |-> 200 * Scale - 4,
               current |-> 10 * Scale + 4, power |-> 500 * Scale],
     bad |-> [forwardPower |-> 0, reflectedPower |-> 0,
              vswr |-> 2 * Scale, returnLoss |-> -10 * Scale, temperature |-> 60 * Scale,
              voltage |-> 180 * Scale, current |-> 12 * Scale, power |-> 0]]

Labels == 1..3

\* The reading taken at label t with the levels lv.
Sample(t, lv) == [timestamps |-> t] @@ Levels[lv]
Samples == {Sample(t, lv) : t \in Labels, lv \in DOMAIN Levels}

NoProcessed == [m \in Metrics \cup {"timestamps"} |-> <<>>]

\* processDataChunk pushes a reading onto every array.
PushSample(data, s) == [m \in Metrics \cup {"timestamps"} |-> Append(data[m], s[m])]

(***************************** the server's steps ***************************)
NowStart == At(51, 12)

\* The wall clock readings the model passes through: up to MaxClockSteps
\* steps of a day or of forty days.
ClockValues ==
    UNION { { NowStart + a * HoursPerDay + b * 40 * HoursPerDay :
                b \in 0..(MaxClockSteps - a) } : a \in 0..MaxClockSteps }

TzOffsets == {-5, 0, 3}

\* A reading is stored (by the telemetry collector, outside this repository).
Ingest ==
    /\ resp = NoResponse
    /\ \E r \in Candidates \ table : table' = table \cup {r}
    /\ UNCHANGED <<outside, now, tz, resp, reading, derived, values, stats, reports>>

\* The wall clock moves on.
Tick ==
    /\ resp = NoResponse
    /\ \E t \in ClockValues : t > now /\ now' = t
    /\ UNCHANGED <<outside, table, tz, resp, reading, derived, values, stats, reports>>

\* server.js: app.get('/api/data/:nodeName/:baseStation?/:timePeriod')
GetDataServer ==
    /\ resp = NoResponse
    /\ \E node \in Nodes \cup {UnknownNode}, bs \in BsInputs \ {""}, period \in Periods :
          resp' \in DataServer(Request(node, bs, period, NoDate, NoDate))
    /\ UNCHANGED <<outside, table, now, tz, reading, derived, values, stats, reports>>

\* part_000: app.get('/api/data/:nodeName/:timePeriod')
GetData000 ==
    /\ resp = NoResponse
    /\ \E node \in Nodes \cup {UnknownNode}, bs \in BsInputs, period \in Periods :
          \E sd, ed \in (IF period = "custom" THEN DateInputs ELSE {NoDate}) :
             resp' \in Data000(Request(node, bs, period, sd, ed))
    /\ UNCHANGED <<outside, table, now, tz, reading, derived, values, stats, reports>>

\* part_001: app.get('/api/data/:nodeName/:timePeriod')
GetData001 ==
    /\ resp = NoResponse
    /\ \E node \in Nodes \cup {UnknownNode}, bs \in BsInputs, period \in Periods :
          resp' \in Data001(Request(node, bs, period, NoDate, NoDate))
    /\ UNCHANGED <<outside, table, now, tz, reading, derived, values, stats, reports>>

\* The response is sent and the next request may come.
Respond ==
    /\ resp # NoResponse
    /\ resp' = NoResponse
    /\ UNCHANGED <<outside, table, now, tz, reading, derived, values, stats, reports>>

\* No analysis has been asked for and no narration generated.
\* part_000: the module's state before startServer runs (let db at line 18).
NoPool == 0
NoCall == [pc |-> "idle", retries |-> 0, delay |-> 0, attempt |-> 0, connection |-> FALSE]
FirstPort == 1

NotStarted ==
    /\ db = NoPool
    /\ call = NoCall
    /\ events = <<>>
    /\ server = "down"
    /\ port = FirstPort

\* App (ReportEditor.js, lines 1369-1380): the selection a render holds and
\* what the dashboard shows.  from and errorFrom are history: the numbers
\* of the requests whose outcome set the data and the error.
InitialSelection ==
    [station |-> "n1", baseStation |-> "", period |-> "24h", startDate |-> "", endDate |-> ""]
NoView == [data |-> "null", from |-> 0, error |-> "", errorFrom |-> 0, loading |-> FALSE]

\* App before its first render.
NotRendered ==
    /\ selected = InitialSelection
    /\ fetchData = InitialSelection
    /\ requests = {}
    /\ issued = 0
    /\ view = NoView

\* ReportEditor.js: the stations of groupedStations and the narration texts
\* ("" no narration; the manual contents are numbered).
MaxEdits == 1
Stations == {"s1", "s2"}
EditNames == <<"edit1", "edit2", "edit3">>
Edits == {EditNames[i] : i \in 1..MaxEdits}
Texts == {"", "auto", "nodata"} \cup Edits

\* The narrations object: the entry of every station, and the other keys
\* that were written into it.
NoNarrations == [of |-> [s \in Stations |-> ""], other |-> {}]

\* localStorage.getItem('reportNarrations') === null
NoStorage == [present |-> FALSE, of |-> NoNarrations.of, other |-> {}]

\* The report editor before it is mounted.
NotMounted ==
    /\ component = "second"
    /\ scope = "all"
    /\ mounted = FALSE
    /\ groupedStations = Stations
    /\ withData = Stations
    /\ narrations = NoNarrations
    /\ stored = NoStorage
    /\ written = NoNarrations.of
    /\ everStored = [s \in Stations |-> FALSE]
    /\ generating = FALSE
    /\ inflight = {}
    /\ error = ""

NoReports ==
    /\ trend = NoTrend
    /\ body = NoBody
    /\ analysis = NoAnalysis
    /\ processed = NoProcessed
    /\ narration = NoNarration

Init ==
    /\ NotStarted /\ NotMounted /\ NotRendered
    /\ table = {}
    /\ now = NowStart
    /\ tz \in TzOffsets
    /\ resp = NoResponse
    /\ reading = NoReading
    /\ derived = NoDerived
    /\ values = NoValues
    /\ stats = NoStats
    /\ NoReports

Next == Ingest \/ Tick \/ GetDataServer \/ GetData000 \/ GetData001 \/ Respond

Spec == Init /\ [][Next]_vars

(***************************** the client's derivation steps ****************)
Idle == /\ table = {} /\ now = NowStart /\ tz = 0 /\ resp = NoResponse
        /\ NotStarted /\ NotMounted /\ NotRendered

InitMetrics ==
    /\ Idle
    /\ NoReports
    /\ reading \in Readings
    /\ derived = NoDerived
    /\ values = NoValues
    /\ stats = NoStats

\* The second ReportEditor component derives the row's metrics.
DeriveChunk ==
    /\ derived = NoDerived
    /\ derived' = processDataChunk(reading)
    /\ UNCHANGED <<outside, table, now, tz, resp, reading, values, stats, reports>>

\* The first ReportEditor component derives the row's metrics.
DeriveMemo ==
    /\ derived = NoDerived
    /\ derived' = processedData(reading)
    /\ UNCHANGED <<outside, table, now, tz, resp, reading, values, stats, reports>>

\* The data query derives the row's metrics (a column is a number or NULL).
DeriveSql ==
    /\ derived = NoDerived
    /\ reading.fwd.k \in {"num", "null"} /\ reading.refl.k \in {"num", "null"}
    /\ derived' = SqlDerived(reading)
    /\ UNCHANGED <<outside, table, now, tz, resp, reading, values, stats, reports>>

\* The next row comes.
NextReading ==
    /\ derived # NoDerived
    /\ reading' \in Readings
    /\ derived' = NoDerived
    /\ UNCHANGED <<outside, table, now, tz, resp, values, stats, reports>>

NextMetrics == DeriveChunk \/ DeriveMemo \/ DeriveSql \/ NextReading

SpecMetrics == InitMetrics /\ [][NextMetrics]_vars

(***************************** the statistics steps *************************)
InitStats ==
    /\ Idle
    /\ NoReports
    /\ reading = NoReading
    /\ derived = NoDerived
    /\ values \in ValueInputs
    /\ stats = NoStats

\* generateAnalysis calls calculateStats on one metric's array.
CalculateStats ==
    /\ ~stats.done
    /\ stats' = [done |-> TRUE, result |-> calculateStats(values)]
    /\ UNCHANGED <<outside, table, now, tz, resp, reading, derived, values, reports>>

\* The arrays a next request may carry after seq: none, an empty one, seq
\* with one more sample, or seq without its oldest.
NextInputs(input) ==
    {NoValues, Given(<<>>)}
    \cup {Given(Append(input.seq, x)) : x \in IF Len(input.seq) < MaxLen
                                                THEN -MaxVal..MaxVal ELSE {}}
    \cup {Given(Tail(input.seq)) : x \in IF Len(input.seq) > 0 THEN {0} ELSE {}}

\* The next array comes.
NextValues ==
    /\ stats.done
    /\ values' \in NextInputs(values)
    /\ stats' = NoStats
    /\ UNCHANGED <<outside, table, now, tz, resp, reading, derived, reports>>

NextStats == CalculateStats \/ NextValues

SpecStats == InitStats /\ [][NextStats]_vars

(***************************** the trend steps *******************************)
Quiet == Idle /\ reading = NoReading /\ derived = NoDerived /\ stats = NoStats

InitTrend ==
    /\ Quiet
    /\ values \in {NoValues, Given(<<>>)}
    /\ trend = NoTrend
    /\ body = NoBody /\ analysis = NoAnalysis
    /\ processed = NoProcessed /\ narration = NoNarration

\* generateAnalysis calls calculateTrend on one metric's array.
CalculateTrend ==
    /\ ~trend.done
    /\ trend' = [done |-> TRUE, result |-> calculateTrend(values)]
    /\ UNCHANGED <<outside, table, now, tz, resp, reading, derived, values, stats,
                   body, analysis, processed, narration>>

\* The array has one more measurement.
NextMeasurement ==
    /\ Len(values.seq) < MaxSeries
    /\ \E p \in Palettes : \E x \in p :
          /\ Range(values.seq) \subseteq p
          /\ values' = Given(Append(values.seq, x))
    /\ trend' = NoTrend
    /\ UNCHANGED <<outside, table, now, tz, resp, reading, derived, stats,
                   body, analysis, processed, narration>>

NextTrend == CalculateTrend \/ NextMeasurement

SpecTrend == InitTrend /\ [][NextTrend]_vars

(***************************** the analysis steps ****************************)
InitAnalyze ==
    /\ Quiet
    /\ values = NoValues
    /\ NoReports

\* server.js: app.post('/api/analyze')
PostAnalyze ==
    /\ analysis = NoAnalysis
    /\ \E b \in Bodies : body' = b /\ analysis' = Analyze(b)
    /\ UNCHANGED <<outside, table, now, tz, resp, reading, derived, values, stats,
                   trend, processed, narration>>

\* The response is sent and the next request may come.
SendAnalysis ==
    /\ analysis # NoAnalysis
    /\ body' = NoBody
    /\ analysis' = NoAnalysis
    /\ UNCHANGED <<outside, table, now, tz, resp, reading, derived, values, stats,
                   trend, processed, narration>>

NextAnalyze == PostAnalyze \/ SendAnalysis

SpecAnalyze == InitAnalyze /\ [][NextAnalyze]_vars

(***************************** the narration steps ***************************)
InitNarration ==
    /\ Quiet
    /\ values = NoValues
    /\ NoReports

\* ReportEditor.js: generateAutoNarration
GenerateAutoNarration ==
    /\ narration = NoNarration
    /\ narration' = generateAutoNarration(processed)
    /\ UNCHANGED <<outside, table, now, tz, resp, reading, derived, values, stats,
                   trend, body, analysis, processed>>

\* chartUtils.js: getMetricInsights on every metric of the station
GetMetricInsights ==
    /\ narration = NoNarration
    /\ narration' = [kind |-> "insights",
                     insights |-> [m \in Metrics |->
                        getMetricInsightsLabels(processed[m], processed.timestamps)]]
    /\ UNCHANGED <<outside, table, now, tz, resp, reading, derived, values, stats,
                   trend, body, analysis, processed>>

\* The station's data arrive with one more reading, or are reloaded.
NextSamples ==
    /\ narration # NoNarration
    /\ \/ /\ Len(processed.timestamps) < MaxReadings
          /\ \E s \in Samples : processed' = PushSample(processed, s)
       \/ /\ Len(processed.timestamps) > 0
          /\ processed' = NoProcessed
    /\ narration' = NoNarration
    /\ UNCHANGED <<outside, table, now, tz, resp, reading, derived, values, stats,
                   trend, body, analysis>>

NextNarration == GenerateAutoNarration \/ GetMetricInsights \/ NextSamples

SpecNarration == InitNarration /\ [][NextNarration]_vars

(***************************** claims: GET /api/data ************************)
Answered == resp # NoResponse

\* duration(token) of the specification, in hours.
DurationOf(period) ==
    CASE period = "24h" -> HoursPerDay
      [] period = "7d" -> Days7 * HoursPerDay
      [] period = "30d" -> Days30 * HoursPerDay
      [] OTHER -> 0

RelativePeriods == {"24h", "7d", "30d"}

\* The rows of the request's node (and base station, when one is asked
\* for) with lo <= time <= hi.
RowsBetween(req, lo, hi) ==
    {r \in NodeRows(req.node) :
        /\ Truthy(req.bs) => r.bs = req.bs
        /\ lo <= r.time /\ r.time <= hi}

BaseStationKnown(req) ==
    Truthy(req.bs) => \E r \in NodeRows(req.node) : r.bs = req.bs

RowIds(rows) == {rows[i].id : i \in 1..Len(rows)}

\* C1: for a recognized non-custom period (24h, 7d, 30d) and a node whose
\* latest stored timestamp is T, the handler of every server variant
\* queries the window start = T - duration, end = T, hung on the latest
\* data timestamp and not on the wall clock; whatever the wall clock, the
\* node's last duration of rows is what the query covers.
C1_WindowAnchoredOnLatestData ==
    (/\ Answered
     /\ resp.req.period \in RelativePeriods
     /\ LatestTime(resp.req.node) # NoTime
     /\ BaseStationKnown(resp.req))
    => /\ resp.queried
       /\ resp.anchor = LatestTime(resp.req.node)
       /\ resp.start = LatestTime(resp.req.node) - DurationOf(resp.req.period)

\* A token no variant may take for a period: "1h" counts as recognized
\* only where it is supported (part_001).
Unrecognized(variant, period) ==
    period = "bogus" \/ (period = "1h" /\ variant # "part_001")

\* C2: for a period token that is not one of the recognized ones, window
\* resolution fails with an invalid-period error and no data query is
\* run; the token is never silently treated as a default period.
C2_UnrecognizedPeriodRejected ==
    (/\ Answered
     /\ Unrecognized(resp.variant, resp.req.period)
     /\ NodeRows(resp.req.node) # {}
     /\ BaseStationKnown(resp.req))
    => /\ resp.status = 400
       /\ resp.error = "Invalid time period"
       /\ ~resp.queried

\* A custom request that reached the window resolution of part_000.
CustomResolved ==
    /\ Answered
    /\ resp.variant = "part_000"
    /\ resp.req.period = "custom"
    /\ TruthyDate(resp.req.startDate) /\ TruthyDate(resp.req.endDate)
    /\ NodeRows(resp.req.node) # {}

CustomAccepted == CustomResolved /\ resp.status # 400

\* C3: a custom request is rejected, with no query, whenever
\* explicitStart or explicitEnd is unparseable or explicitEnd is earlier
\* than explicitStart, and accepted only when both parse and
\* explicitEnd >= explicitStart, also for two instants of one calendar day.
C3_CustomRangeRejectedIffInvalid ==
    CustomResolved =>
        LET s == NewDate(resp.req.startDate)
            e == NewDate(resp.req.endDate)
            invalid == IsNaNDate(s) \/ IsNaNDate(e) \/ e < s
        IN  /\ invalid => (resp.status = 400 /\ ~resp.queried)
            /\ resp.status # 400 => ~invalid

\* C4: an accepted custom request resolves to start = explicitStart and
\* end = 23:59:59.999 of the calendar day explicitEnd names, so a range of
\* one day D (start date = end date = D) is accepted and covers the whole
\* of D: from D 00:00:00 to D 23:59:59.999.
C4_CustomWindowWholeDays ==
    /\ CustomAccepted =>
          /\ resp.start = NewDate(resp.req.startDate)
          /\ resp.end = At(resp.req.endDate.day, HoursPerDay - 1)
    /\ (CustomResolved /\ resp.req.startDate.kind = "date"
                       /\ resp.req.endDate = resp.req.startDate) =>
          /\ resp.status # 400
          /\ resp.start = At(resp.req.startDate.day, 0)
          /\ resp.end = At(resp.req.startDate.day, HoursPerDay - 1)

\* The end of the window a 200 answers for: the handler's own upper bound,
\* or the latest timestamp it hung the window on.
WindowEnd == IF resp.end # NoTime THEN resp.end ELSE resp.anchor

\* C5: the rows of a 200 are exactly the stored rows of the node (and base
\* station) with start <= time <= end for the resolved window, in time
\* order; no row before start or after end is returned.
C5_RowsExactlyInWindow ==
    (Answered /\ resp.status = 200 /\ resp.queried) =>
        /\ RowIds(resp.rows) = {r.id : r \in RowsBetween(resp.req, resp.start, WindowEnd)}
        /\ \A i \in 1..(Len(resp.rows) - 1) : resp.rows[i].time >= resp.rows[i + 1].time

\* The window the request resolves to holds no row of the node (and base
\* station).
WindowEmpty ==
    /\ resp.start # NoTime
    /\ RowsBetween(resp.req, resp.start, WindowEnd) = {}

\* C6: when the node has no latest timestamp (no data at all), or the
\* resolved window holds zero rows, the endpoint answers 200 with an empty
\* row list and runs no data query with an undefined end; the absence of
\* data is never an error outcome.
C6_NoDataIsEmptySuccess ==
    (/\ Answered
     /\ resp.req.period \in RelativePeriods \/ CustomAccepted
     /\ LatestTime(resp.req.node) = NoTime \/ (BaseStationKnown(resp.req) /\ WindowEmpty))
    => /\ resp.status = 200
       /\ resp.rows = <<>>
       /\ LatestTime(resp.req.node) = NoTime => ~resp.queried

(***************************** claims: metric derivation *******************)
Derived == derived # NoDerived

\* The powers of the row with the missing channels replaced by 0.
ForwardPower == OrZero(reading.fwd)
ReflectedPower == OrZero(reading.refl)

\* x >= 1 and x <= 0, x >= 0 for a derived number.
AtLeastOne(x) == IsFin(x) /\ x.v >= Scale
AtMostZero(x) == IsFin(x) /\ x.v <= 0
AtLeastZero(x) == IsFin(x) /\ x.v >= 0

\* C7: for every reading with forwardPower <= 0 or reflectedPower <= 0
\* (negative values and missing, undefined or NaN channels, taken as 0,
\* included) the derived VSWR is exactly 1 and the derived return loss is
\* exactly 0.
C7_NoSignalDefaults ==
    (Derived /\ (ForwardPower <= 0 \/ ReflectedPower <= 0))
    => /\ derived.vswr = Fin(Scale)
       /\ derived.returnLoss = Fin(0)

WellMatched == ForwardPower > 0 /\ ReflectedPower > 0 /\ ReflectedPower < ForwardPower

C9_SaturatedAtTotalReflection ==
    (Derived /\ ForwardPower > 0 /\ ReflectedPower >= ForwardPower)
    => AtLeastOne(derived.vswr)

(***************************** claims: calculateStats ***********************)
Calculated == stats.done

RECURSIVE SumOf(_)
SumOf(seq) == IF seq = <<>> THEN 0 ELSE Head(seq) + SumOf(Tail(seq))

RECURSIVE SumOfSquares(_)
SumOfSquares(seq) ==
    IF seq = <<>> THEN 0 ELSE Head(seq) * Head(seq) + SumOfSquares(Tail(seq))

\* a/b = c/d for positive b, d.
RatEq(r, c, d) == r.num * d = c * r.den

\* C10: calculateStats returns {min: 0, max: 0, avg: 0, stdDev: 0} for an
\* absent or empty array; for a non-empty one the minimum, the maximum,
\* the arithmetic mean and the population standard deviation (the square
\* root of the mean squared deviation over N, not N - 1: the variance is
\* (N * sum of squares - square of the sum) / N^2, and stdDev its root to
\* within two units of the last digit kept); for a single value v,
\* min = max = avg = v and stdDev = 0.
C10_CalculateStats ==
    Calculated =>
        LET st == stats.result
            q == values.seq
            n == Len(q)
        IN  IF ~values.present \/ n = 0
            THEN /\ st.min = 0 /\ st.max = 0
                 /\ RatEq(st.avg, 0, 1) /\ st.stdDev = 0
            ELSE /\ \E i \in 1..n : q[i] = st.min
                 /\ \A i \in 1..n : st.min <= q[i]
                 /\ \E i \in 1..n : q[i] = st.max
                 /\ \A i \in 1..n : q[i] <= st.max
                 /\ RatEq(st.avg, SumOf(q), n)
                 /\ RatEq(st.variance, n * SumOfSquares(q) - SumOf(q) * SumOf(q), n * n)
                 /\ LET pv == n * SumOfSquares(q) - SumOf(q) * SumOf(q)
                    IN  /\ st.stdDev * st.stdDev * n * n <= pv * Scale * Scale
                        /\ (st.stdDev + 2) * (st.stdDev + 2) * n * n > pv * Scale * Scale
                 /\ n = 1 => (st.min = q[1] /\ st.max = q[1] /\ RatEq(st.avg, q[1], 1)
                              /\ st.stdDev = 0)

\* The deviation of <<1, 3>> is 1 (the population's; the sample's is 1.41).
C10_Witness ==
    /\ Calculated
    /\ values = Given(<<1, 3>>)
    /\ stats.result.min = 1 /\ stats.result.max = 3
    /\ RatEq(stats.result.avg, 2, 1)
    /\ stats.result.stdDev = Scale

(***************************** claims: calculateTrend ***********************)
TrendCalculated == trend.done

\* The sums of the five values before the last five, and of the last five.
EarlierFive(q) == SumOf(SubSeq(q, Len(q) - 9, Len(q) - 5))
LaterFive(q) == SumOf(SubSeq(q, Len(q) - 4, Len(q)))

EarlierHalf(q) == SumOf(SubSeq(q, 1, Len(q) \div 2))
LaterHalf(q) == SumOf(SubSeq(q, Len(q) - (Len(q) \div 2) + 1, Len(q)))

\* C12: for 2 <= n < 10 values the series is split evenly into two
\* disjoint halves whose averages are compared: when the later half
\* differs from the earlier half by 5% or more, the label is not 'stable'.
C12_ShortSeriesSplitEvenly ==
    (TrendCalculated /\ values.present /\ Len(values.seq) >= 2 /\ Len(values.seq) < 10) =>
        LET a == EarlierHalf(values.seq)
            b == LaterHalf(values.seq)
        IN  (a # 0 /\ 100 * Abs(b - a) >= 5 * Abs(a)) => trend.result.label # "stable"

\* C13: no trend label contains Infinity or NaN, and a series whose
\* first-half average is 0 is labelled 'stable' or 'insufficient data'.
C13_ZeroFirstHalfGuarded ==
    TrendCalculated =>
        /\ trend.result.percent.k \notin {"nan", "inf"}
        /\ (values.present /\ Len(values.seq) >= 2
            /\ SumOf(SliceFirst(SliceLast(values.seq, RecentWindow), HalfWindow)) = 0)
              => trend.result.label \in {"stable", "insufficient"}

(***************************** claims: getMetricInsights ********************)
Narrated == narration.kind = "rf"
Summarized == narration.kind \in {"rf", "insights"}

ReadingCount == Len(processed.timestamps)

\* The orders the same readings can arrive in.
Orders(n) == {f \in [1..n -> 1..n] : \A i, j \in 1..n : f[i] = f[j] => i = j}
Reordered(data, f) ==
    [m \in Metrics \cup {"timestamps"} |-> [i \in 1..Len(data[m]) |-> data[m][f[i]]]]

\* C14: the trend label and the max/min timestamp attribution of every
\* metric are the same for every order of arrival of the same readings.
C14_OrderIndependent ==
    Narrated =>
        \A f \in Orders(ReadingCount) :
            LET other == generateAutoNarration(Reordered(processed, f))
            IN  \A m \in Metrics :
                   /\ other.insights[m].trend = narration.insights[m].trend
                   /\ other.insights[m].maxTime = narration.insights[m].maxTime
                   /\ other.insights[m].minTime = narration.insights[m].minTime

\* The smallest index at which vals has its maximum, its minimum.
FirstMax(vals) ==
    CHOOSE i \in 1..Len(vals) : /\ \A j \in 1..Len(vals) : vals[j] <= vals[i]
                                /\ \A j \in 1..(i - 1) : vals[j] < vals[i]
FirstMin(vals) ==
    CHOOSE i \in 1..Len(vals) : /\ \A j \in 1..Len(vals) : vals[j] >= vals[i]
                                /\ \A j \in 1..(i - 1) : vals[j] > vals[i]

C16_ClientTrendClassification ==
    (Narrated /\ ReadingCount >= 2) =>
        \A m \in Metrics :
            LET recent == SliceLast(processed[m], RecentWindow)
                a == EarlierHalf(recent)
                b == LaterHalf(recent)
                label == narration.insights[m].trend
            IN  a > 0 =>
                  /\ 100 * Abs(b - a) < 5 * a => label = "Stable"
                  /\ label = "Increasing" => (100 * (b - a) >= 5 * a)
                  /\ label = "Decreasing" => (100 * (a - b) >= 5 * a)

\* C18: the health lines follow the true statistics of the series: the
\* high-VSWR warning iff the mean VSWR is > 1.5, good impedance matching iff
\* the mean return loss is < -20, the high-temperature warning iff the
\* maximum temperature is > 50, the low-voltage warning iff the mean
\* voltage is < 200, the high-current warning iff the mean current is > 10.
C18_HealthLinesByTrueStatistics ==
    Narrated =>
        LET n == ReadingCount
            sum(m) == SumOf(processed[m])
            h == narration.health
        IN  /\ (h.vswr = "High VSWR detected") <=> (2 * sum("vswr") > 3 * Scale * n)
            /\ h.vswr \in {"High VSWR detected", "VSWR within acceptable range"}
            /\ (h.returnLoss = "Good impedance matching")
                  <=> (sum("returnLoss") < -20 * Scale * n)
            /\ h.returnLoss \in {"Good impedance matching", "Poor return loss"}
            /\ (h.temperature = "High temperature detected")
                  <=> (\E i \in 1..n : processed.temperature[i] > 50 * Scale)
            /\ h.temperature \in {"High temperature detected",
                                  "Temperature within normal range"}
            /\ (h.voltage = "Low voltage detected") <=> (sum("voltage") < 200 * Scale * n)
            /\ h.voltage \in {"Low voltage detected", "Voltage within normal range"}
            /\ (h.current = "High current detected") <=> (sum("current") > 10 * Scale * n)
            /\ h.current \in {"High current detected", "Current within normal range"}

(***************************** claims: POST /api/analyze ********************)
Analyzed == analysis.status = 200

\* The sum and the number of the values of an entry of the request (an
\* absent or empty entry counts as the average 0).
Total(entry) == SumOf(entry.seq)
Count(entry) == IF Len(entry.seq) = 0 THEN 1 ELSE Len(entry.seq)

\* C17: each assessment is the one label of the band of the average, every
\* boundary belonging to the worse band: latency < 50 excellent, < 100
\* good, < 200 moderate congestion, else significant delays; packet loss
\* < 1 excellent, < 3 acceptable, < 5 stability issues, else significant
\* problems; signal > -50 excellent, > -70 good, > -85 adequate, else weak.
C17_AssessmentBands ==
    Analyzed =>
        LET v == Total(body.data.voltage)
            vn == Count(body.data.voltage)
            c == Total(body.data.current)
            cn == Count(body.data.current)
            p == Total(body.data.power)
            pn == Count(body.data.power)
            nar == analysis.narration
        IN  /\ nar.latency.assessment =
                  (CASE v < 50 * vn -> "excellent network responsiveness"
                     [] v >= 50 * vn /\ v < 100 * vn -> "good network performance"
                     [] v >= 100 * vn /\ v < 200 * vn -> "moderate network congestion"
                     [] v >= 200 * vn -> "significant network delays")
            /\ nar.reliability.assessment =
                  (CASE c < cn -> "excellent reliability"
                     [] c >= cn /\ c < 3 * cn -> "acceptable ranges"
                     [] c >= 3 * cn /\ c < 5 * cn -> "stability issues"
                     [] c >= 5 * cn -> "significant network problems")
            /\ nar.signal.assessment =
                  (CASE p > -50 * pn -> "excellent"
                     [] p <= -50 * pn /\ p > -70 * pn -> "good"
                     [] p <= -70 * pn /\ p > -85 * pn -> "adequate"
                     [] p <= -85 * pn -> "weak")

\* Averages of exactly 100 ms, 3 % and -85 dBm fall in the worse bands.
C17_Witness ==
    /\ Analyzed
    /\ body.data.voltage = Given(<<100>>)
    /\ body.data.current = Given(<<3>>)
    /\ body.data.power = Given(<<-85>>)
    /\ analysis.narration.latency.assessment = "moderate network congestion"
    /\ analysis.narration.reliability.assessment = "stability issues"
    /\ analysis.narration.signal.assessment = "weak"

\* The problem conditions of the overall assessment that the request triggers.
Triggered ==
    (IF Total(body.data.voltage) > 100 * Count(body.data.voltage)
     THEN {"high latency"} ELSE {})
    \cup (IF Total(body.data.current) > 3 * Count(body.data.current)
          THEN {"significant packet loss"} ELSE {})
    \cup (IF Total(body.data.power) < -80 * Count(body.data.power)
          THEN {"weak signal strength"} ELSE {})

IssueOrder == <<"high latency", "significant packet loss", "weak signal strength">>
Rank(issue) == CHOOSE i \in 1..Len(IssueOrder) : IssueOrder[i] = issue

\* C19: getOverallAssessment returns the 'performing optimally' sentence
\* iff no problem condition is triggered; otherwise one sentence listing
\* exactly the triggered conditions, each once, in the order high latency,
\* significant packet loss, weak signal strength.
C19_OverallAssessment ==
    Analyzed =>
        LET o == analysis.narration.overall
        IN  /\ o.optimal <=> (Triggered = {})
            /\ o.optimal => o.issues = <<>>
            /\ Range(o.issues) = Triggered
            /\ Len(o.issues) = Cardinality(Triggered)
            /\ \A i, j \in 1..Len(o.issues) :
                  i < j => Rank(o.issues[i]) < Rank(o.issues[j])

\* All three conditions triggered: all three listed, in the fixed order.
C19_Witness ==
    /\ Analyzed
    /\ body.data.voltage = Given(<<101>>)
    /\ body.data.current = Given(<<4>>)
    /\ body.data.power = Given(<<-82>>)
    /\ analysis.narration.overall = RequiresAttention(IssueOrder)

\* C20: narration generation fails, and returns no narration, whenever the
\* metric data are missing or the entry of a tracked metric is absent.
C20_AbsentMetricRejected ==
    (analysis # NoAnalysis
     /\ (body.data.kind # "object" \/ ~body.data.voltage.present
         \/ ~body.data.current.present \/ ~body.data.power.present))
        => (analysis.status >= 400 /\ analysis.narration = NoNarration)

(***************************** claims: direction and agreement **************)
\* The halves calculateTrend compares: the first and the last five (or
\* fewer) of the last ten values.
FirstHalfOf(q) == SliceFirst(SliceLast(q, RecentWindow), HalfWindow)
SecondHalfOf(q) == SliceLast(SliceLast(q, RecentWindow), HalfWindow)

\* C23: 'increasing' is reported only when the second-half average is
\* greater than the first-half average, 'decreasing' only when it is
\* smaller, series of negative values included (a zero first-half average,
\* the case of C13, left aside).
C23_DirectionFollowsAverages ==
    (TrendCalculated /\ values.present /\ Len(values.seq) >= 2
     /\ SumOf(FirstHalfOf(values.seq)) # 0) =>
        LET a == SumOf(FirstHalfOf(values.seq)) * Len(SecondHalfOf(values.seq))
            b == SumOf(SecondHalfOf(values.seq)) * Len(FirstHalfOf(values.seq))
        IN  /\ trend.result.label = "increasing" => b > a
            /\ trend.result.label = "decreasing" => b < a

\* The bands of the assessment functions that name a problem.
LatencyProblems == {"moderate network congestion", "significant network delays"}
ReliabilityProblems == {"stability issues", "significant network problems"}
SignalProblems == {"weak"}

\* C24: within one narration the overall assessment agrees with the
\* per-metric assessments: 'performing optimally' only if no metric's own
\* assessment is in a problem band, and an issue listed for a metric only if
\* that metric's own assessment is in a problem band.
C24_OverallAgreesWithAssessments ==
    Analyzed =>
        LET nar == analysis.narration
            issues == Range(nar.overall.issues)
        IN  /\ nar.overall.optimal =>
                  /\ nar.latency.assessment \notin LatencyProblems
                  /\ nar.reliability.assessment \notin ReliabilityProblems
                  /\ nar.signal.assessment \notin SignalProblems
            /\ "high latency" \in issues => nar.latency.assessment \in LatencyProblems
            /\ "significant packet loss" \in issues
                  => nar.reliability.assessment \in ReliabilityProblems
            /\ "weak signal strength" \in issues => nar.signal.assessment \in SignalProblems

(***************************** claims: the data query's parameters **********)
\* C26: the data query is executed with exactly one bound value per
\* placeholder, and never ends with a database error.
C26_OneParameterPerPlaceholder ==
    (Answered /\ resp.queried) =>
        /\ resp.params = resp.placeholders
        /\ resp.status # 500

(***************************** the report's steps ***************************)
\* The forward and reflected power of the rows a station reports: well
\* matched (reflected at most a hundredth of forward), grossly mismatched
\* (reflected above forward), and no signal.
MatchPairs == {<<100, 1>>, <<400, 1>>, <<400, 4>>, <<1, 100>>, <<1, 400>>, <<0, 0>>}

\* A row of the station's data as the client receives it.
StationRows == {[t |-> t, fwd |-> Num(p[1]), refl |-> Num(p[2])] : t \in Labels, p \in MatchPairs}

\* ReportEditor.js: processDataChunk, the pushes for one row; the channels
\* that are not derived from the powers are those of the healthy reading.
PushRow(data, d) ==
    LET c == processDataChunk(d)
    IN  PushSample(data,
            [Levels.healthy EXCEPT !.forwardPower = OrZero(d.fwd) * Scale,
                                   !.reflectedPower = OrZero(d.refl) * Scale,
                                   !.vswr = c.vswr.v,
                                   !.returnLoss = c.returnLoss.v]
            @@ [timestamps |-> d.t])

RECURSIVE ProcessRows(_, _, _)
ProcessRows(rows, i, data) ==
    IF i > Len(rows) THEN data
    ELSE ProcessRows(rows, i + 1, PushRow(data, rows[i]))

\* ReportEditor.js: the station's rows arrive and processDataChunk derives
\* the station's arrays from them.
ProcessDataChunk ==
    /\ \E n \in 1..MaxReadings : \E rows \in [1..n -> StationRows] :
          processed' = ProcessRows(rows, 1, NoProcessed)
    /\ narration' = NoNarration
    /\ UNCHANGED <<outside, table, now, tz, resp, reading, derived, values, stats,
                   trend, body, analysis>>

NextReport == ProcessDataChunk \/ GenerateAutoNarration

SpecReport == InitNarration /\ [][NextReport]_vars

(***************************** claims: impedance matching *******************)
ReadingsOf(data) == {<<data.forwardPower[i], data.reflectedPower[i]>> : i \in 1..Len(data.timestamps)}

EveryReadingMatched(data) == \A r \in ReadingsOf(data) : r[1] > 0 /\ r[2] > 0 /\ 100 * r[2] <= r[1]
EveryReadingMismatched(data) == \A r \in ReadingsOf(data) : r[2] > r[1]

\* C25: a station whose every reading has forward power above zero and
\* reflected power above zero and at most a hundredth of the forward power
\* is narrated with 'Good impedance matching'; a station whose every
\* reading has more reflected than forward power never is.
C25_WellMatchedReportedGood ==
    Narrated =>
        /\ EveryReadingMatched(processed) => narration.health.returnLoss = "Good impedance matching"
        /\ EveryReadingMismatched(processed) => narration.health.returnLoss # "Good impedance matching"

(***************************** the server's start-up ************************)
\* part_000: initializeDB(retries, delay) and startServer(port).  db is the
\* module's pool (NoPool: undefined; n: the pool created by attempt n).
\* call is the frame of the running initializeDB call, events what the call
\* has done so far, one record per step.
MaxRetries == 3
MaxPorts == 2
Delays == {1000, 5000}

Event(e, n) == [e |-> e, n |-> n]

\* initializeDB, lines 27-31: the entry of the call and the first pass of
\* the for loop up to the first await that can fail.
Enter(retries, delay) ==
    LET frame == [pc |-> "connect", retries |-> retries, delay |-> delay,
                  attempt |-> 1, connection |-> FALSE]
    IN  IF db # NoPool
        THEN [db |-> db, call |-> [frame EXCEPT !.pc = "returned", !.attempt = 0],
              events |-> <<Event("call", db), Event("return", db)>>]
        ELSE IF 1 <= retries
        THEN [db |-> 1, call |-> frame,
              events |-> <<Event("call", db), Event("attempt", 1)>>]
        ELSE [db |-> db, call |-> [frame EXCEPT !.pc = "returned", !.attempt = 0],
              events |-> <<Event("call", db), Event("return", NoPool)>>]

\* A mutation of the catch block: it waits after the last failure too.
CatchWaitAlways(c) ==
    [call |-> [c EXCEPT !.pc = "wait"],
     events |-> <<Event("fail", c.attempt), Event("wait", c.delay)>>]

\* initializeDB, lines 74-84: the catch block of an attempt.
Catch(c) ==
    IF c.attempt = c.retries
    THEN [call |-> [c EXCEPT !.pc = "thrown"],
          events |-> <<Event("fail", c.attempt), Event("throw", c.attempt)>>]
    ELSE [call |-> [c EXCEPT !.pc = "wait"],
          events |-> <<Event("fail", c.attempt), Event("wait", c.delay)>>]

\* startServer, lines 519-522: the server calls initializeDB (with 3 and
\* 5000; every bounded pair of arguments is tried).
StartServer ==
    /\ server = "down"
    /\ call.pc = "idle"
    /\ \E retries \in 0..MaxRetries : \E delay \in Delays :
          LET in == Enter(retries, delay)
          IN  db' = in.db /\ call' = in.call /\ events' = in.events
    /\ server' = "initializing"
    /\ UNCHANGED <<measured, editor, dashboard, port>>

\* initializeDB, line 51: await db.getConnection() settles.
GetConnection ==
    /\ call.pc = "connect"
    /\ \/ /\ call' = [call EXCEPT !.pc = "query", !.connection = TRUE]
          /\ events' = Append(events, Event("acquire", call.attempt))
       \/ /\ call' = Catch(call).call
          /\ events' = events \o Catch(call).events
    /\ UNCHANGED <<measured, editor, dashboard,
                   db, server, port>>

\* initializeDB, lines 54-73: the three test queries settle; the finally
\* block releases the connection whether they succeeded or not.
TestQueries ==
    /\ call.pc = "query"
    /\ LET released == [call EXCEPT !.connection = FALSE]
       IN  \/ /\ call' = [released EXCEPT !.pc = "returned"]
              /\ events' = events \o <<Event("ok", call.attempt),
                                       Event("release", call.attempt),
                                       Event("return", db)>>
           \/ /\ call' = Catch(released).call
              /\ events' = events \o <<Event("release", call.attempt)>>
                                  \o Catch(released).events
    /\ UNCHANGED <<measured, editor, dashboard,
                   db, server, port>>

\* initializeDB, lines 83 and 31-35: the timer fires, the loop goes on to
\* the next attempt and creates the next pool.
Timeout ==
    /\ call.pc = "wait"
    /\ IF call.attempt + 1 <= call.retries
       THEN /\ call' = [call EXCEPT !.pc = "connect", !.attempt = @ + 1]
            /\ db' = call.attempt + 1
            /\ events' = Append(events, Event("attempt", call.attempt + 1))
       ELSE /\ call' = [call EXCEPT !.pc = "returned"]
            /\ db' = db
            /\ events' = Append(events, Event("return", NoPool))
    /\ UNCHANGED <<measured, editor, dashboard,
                   server, port>>

\* startServer, lines 524-536: app.listen succeeds, fails on a busy port
\* (startServer(port + 1) calls initializeDB again) or fails otherwise.
Listen ==
    /\ server = "initializing"
    /\ call.pc = "returned"
    /\ \/ /\ server' = "listening"
          /\ UNCHANGED <<db, call, events, port>>
       \/ /\ port < MaxPorts
          /\ port' = port + 1
          /\ LET in == Enter(call.retries, call.delay)
             IN  db' = in.db /\ call' = in.call /\ events' = in.events
          /\ server' = "initializing"
       \/ /\ server' = "failed"
          /\ UNCHANGED <<db, call, events, port>>
    /\ UNCHANGED <<measured, editor, dashboard>>

\* startServer, lines 537-543: initializeDB threw; process.exit(1).
Exit ==
    /\ server = "initializing"
    /\ call.pc = "thrown"
    /\ server' = "exited"
    /\ UNCHANGED <<measured, editor, dashboard,
                   db, call, events, port>>

InitStartup ==
    /\ Quiet
    /\ values = NoValues
    /\ NoReports

NextStartup == StartServer \/ GetConnection \/ TestQueries \/ Timeout \/ Listen \/ Exit

SpecStartup == InitStartup /\ [][NextStartup]_vars

\* Every await of initializeDB settles (the pool has a connect timeout, the
\* timer fires), and startServer goes on when its await has.
SpecStartupLive ==
    /\ SpecStartup
    /\ WF_vars(GetConnection) /\ WF_vars(TestQueries) /\ WF_vars(Timeout)

(***************************** claims: initializeDB *************************)
Occurrences(e) == Cardinality({i \in DOMAIN events : events[i].e = e})
Called == call.pc # "idle"
Running == call.pc \in {"connect", "query", "wait"}
Finished == call.pc \in {"returned", "thrown"}

\* What initializeDB has done so far is what its contract allows.
InitializeDBContract ==
    Called =>
        \* at most `retries` attempts, numbered from 1
        /\ Occurrences("attempt") <= call.retries
        /\ Occurrences("attempt") = call.attempt
        \* nothing but the release and the return follows a success
        /\ \A i \in DOMAIN events : events[i].e = "ok" =>
              /\ \A j \in DOMAIN events : j > i => events[j].e \in {"release", "return"}
              /\ call.pc = "returned"
        \* a wait lasts `delay`, follows a failure at once and precedes an attempt
        /\ \A i \in DOMAIN events : events[i].e = "wait" =>
              /\ events[i].n = call.delay
              /\ i > 1 /\ events[i - 1].e = "fail"
              /\ i < Len(events) => events[i + 1].e = "attempt"
        \* a failure before the last is followed by a wait, the last by the throw
        /\ \A i \in DOMAIN events : events[i].e = "fail" =>
              /\ i < Len(events)
              /\ events[i + 1].e = (IF events[i].n = call.retries THEN "throw" ELSE "wait")
        /\ call.pc = "thrown" <=> (call.retries >= 1 /\ Occurrences("fail") = call.retries)
        /\ call.pc = "thrown" => /\ events[Len(events)].e = "throw"
                                 /\ Occurrences("wait") = call.retries - 1
        \* the connection of an attempt is released before anything else happens
        /\ call.connection <=> call.pc = "query"
        /\ Occurrences("release") = Occurrences("acquire") - (IF call.connection THEN 1 ELSE 0)
        \* a pool that is there at the call is returned without an attempt
        /\ events[1].n # NoPool =>
              /\ call.pc = "returned"
              /\ events = <<Event("call", db), Event("return", db)>>

\* C22: initializeDB(retries, delay) ends after at most `retries` attempts:
\* it returns on the first success, waits `delay` only between a failed
\* attempt and the next, throws after exactly `retries` failures without a
\* further wait, releases the connection of every attempt that acquired
\* one, and makes no attempt when a pool is already there.
C22_InitializeDBTerminates ==
    /\ []InitializeDBContract
    /\ Running ~> Finished

\* The call failed three times, the second and third time with a connection.
C22_Witness ==
    /\ call.pc = "thrown"
    /\ call.retries = 3
    /\ Occurrences("acquire") = 2
    /\ Occurrences("release") = 2
    /\ Occurrences("wait") = 2

(***************************** the report editor ****************************)
\* ReportEditor.js holds two versions of the component: the first (lines
\* 1-505) asks the server for the narration and writes localStorage itself,
\* the second (506-1035) computes the narration in place and saves the
\* narrations in an effect.  component says which one is mounted.
\*
\* The first component reads chartRefs (line 190) and forwardPowerImage
\* (line 225), which it does not declare: scope says which of them the
\* enclosing scope supplies ("none", "chartRefs", "all"); reading one that
\* is not supplied ends the call with a ReferenceError.
\*
\* written and everStored are history: the last content written for each
\* station, and whether localStorage ever held a narration for it.
MaxInFlight == 2
StationSets == SUBSET Stations \ {{}}

Stored(n) == [present |-> TRUE, of |-> n.of, other |-> n.other]

Remember(st) == [s \in Stations |-> everStored[s] \/ (st.present /\ st.of[s] # "")]

\* Lines 641-651: the saved narrations of the stations of groupedStations.
FilterSaved(st, stations) ==
    [of |-> [s \in Stations |-> IF s \in stations THEN st.of[s] ELSE ""], other |-> {}]

Pending(op, station) == [op |-> op, station |-> station, snapshot |-> narrations]

\* First component, lines 50-56: the mount effect loads what is saved.
\* Second component, lines 619-653 and 862-865: the effect on
\* groupedStations loads the saved narrations of the stations shown, and
\* the save effect writes the narrations back.
LoadSaved(stations) ==
    IF component = "first"
    THEN [narrations |-> IF stored.present THEN [of |-> stored.of, other |-> stored.other]
                         ELSE narrations,
          stored |-> stored]
    ELSE LET loaded == IF stored.present THEN FilterSaved(stored, stations) ELSE narrations
         IN  [narrations |-> loaded, stored |-> Stored(loaded)]

Mount ==
    /\ ~mounted
    /\ mounted' = TRUE
    /\ narrations' = LoadSaved(groupedStations).narrations
    /\ stored' = LoadSaved(groupedStations).stored
    /\ everStored' = Remember(stored')
    /\ UNCHANGED <<measured, startup, dashboard, component, scope, groupedStations, withData,
                   written, generating, inflight, error>>

\* App renders the editor with the stations of another node.  The first
\* component only renews its chart refs (lines 58-76); the second loads
\* the saved narrations again.
SelectStations ==
    /\ mounted
    /\ \E stations \in StationSets \ {groupedStations} :
          /\ groupedStations' = stations
          /\ IF component = "first"
             THEN UNCHANGED <<narrations, stored>>
             ELSE /\ narrations' = LoadSaved(stations).narrations
                  /\ stored' = LoadSaved(stations).stored
    /\ everStored' = Remember(stored')
    /\ UNCHANGED <<measured, startup, dashboard, component, scope, mounted, withData,
                   written, generating, inflight, error>>

\* handleNarrationChange(station, content): lines 276-281 and 875-880.
handleNarrationChange(station, content) ==
    [narrations EXCEPT !.of[station] = content]

\* The dialog's editor changes while station is being edited.  The first
\* component passes (content) => handleNarrationChange(editingStation,
\* content) (line 499); the second passes handleNarrationChange itself
\* (line 1029), which the editor calls with (content, delta): the content
\* becomes the key.
HandleNarrationChange ==
    /\ mounted
    /\ \E station \in groupedStations : \E content \in Edits :
          /\ IF component = "first"
             THEN /\ narrations' = handleNarrationChange(station, content)
                  /\ stored' = stored
             ELSE /\ station \in withData
                  /\ narrations' = [narrations EXCEPT !.other = @ \cup {content}]
                  /\ stored' = Stored(narrations')
          /\ written' = [written EXCEPT ![station] = content]
    /\ everStored' = Remember(stored')
    /\ UNCHANGED <<measured, startup, dashboard, component, scope, mounted, groupedStations,
                   withData, generating, inflight, error>>

\* First component, lines 183-246: generateAutoNarration(baseStation) up to
\* the fetch of /api/analyze.
RequestAnalysis ==
    /\ mounted /\ component = "first"
    /\ Cardinality(inflight) < MaxInFlight
    /\ \E station \in groupedStations :
          IF scope = "none"
          THEN /\ error' = "ReferenceError: chartRefs is not defined"
               /\ UNCHANGED <<generating, inflight>>
          ELSE IF station \notin withData
          THEN /\ error' = "Missing required data for analysis"
               /\ UNCHANGED <<generating, inflight>>
          ELSE IF scope = "chartRefs"
          THEN /\ generating' = TRUE
               /\ error' = "Error generating narration"
               /\ UNCHANGED inflight
          ELSE /\ generating' = TRUE
               /\ inflight' = inflight \cup {Pending("analyze", station)}
               /\ UNCHANGED error
    /\ UNCHANGED <<measured, startup, dashboard, component, scope, mounted, groupedStations,
                   withData, narrations, stored, written, everStored>>

\* First component, lines 248-265: the fetch settles.  The narrations
\* written are those of the render that made the request.
CompleteAnalysis ==
    /\ \E req \in inflight :
          /\ req.op = "analyze"
          /\ inflight' = inflight \ {req}
          /\ \/ /\ narrations' = [req.snapshot EXCEPT !.of[req.station] = "auto"]
                /\ stored' = Stored(narrations')
                /\ written' = [written EXCEPT ![req.station] = "auto"]
                /\ generating' = FALSE
                /\ UNCHANGED error
             \/ /\ error' = "Error generating narration"
                /\ UNCHANGED <<narrations, stored, written, generating>>
    /\ everStored' = Remember(stored')
    /\ UNCHANGED <<measured, startup, dashboard, component, scope, mounted, groupedStations,
                   withData>>

\* First component, lines 283-438 and 455-462: the GENERATE AUTO ANALYSIS
\* button, enabled when nothing is generating and the charts of every
\* station shown are loaded.
GenerateAutoNarrations ==
    /\ mounted /\ component = "first"
    /\ ~generating
    /\ groupedStations \subseteq withData
    /\ IF scope = "none"
       THEN /\ error' = "Error generating narrations"
            /\ UNCHANGED <<narrations, written>>
       ELSE /\ narrations' = [of |-> [s \in Stations |->
                                        IF s \in groupedStations THEN "auto" ELSE ""],
                              other |-> {}]
            /\ written' = [s \in Stations |->
                             IF s \in groupedStations THEN "auto" ELSE written[s]]
            /\ UNCHANGED error
    /\ UNCHANGED <<measured, startup, dashboard, component, scope, mounted, groupedStations,
                   withData, stored, everStored, generating, inflight>>

\* Second component, lines 656-760: generateAutoNarration(station), which
\* runs to its end without an await; generating is true only within it.
GenerateNarration ==
    /\ mounted /\ component = "second"
    /\ ~generating
    /\ \E station \in groupedStations :
          /\ narrations' = handleNarrationChange(station,
                               IF station \in withData THEN "auto" ELSE "nodata")
          /\ written' = [written EXCEPT ![station] = narrations'.of[station]]
    /\ stored' = Stored(narrations')
    /\ everStored' = Remember(stored')
    /\ UNCHANGED <<measured, startup, dashboard, component, scope, mounted, groupedStations,
                   withData, generating, inflight, error>>

\* handleGeneratePDF, lines 440-450 and 902-927, up to await generatePDF.
HandleGeneratePDF ==
    /\ mounted
    /\ ~generating
    /\ Cardinality(inflight) < MaxInFlight
    /\ generating' = TRUE
    /\ inflight' = inflight \cup {Pending("pdf", "")}
    /\ UNCHANGED <<measured, startup, dashboard, component, scope, mounted, groupedStations,
                   withData, narrations, stored, written, everStored, error>>

\* handleGeneratePDF: generatePDF settles; the finally block runs.
CompletePDF ==
    /\ \E req \in inflight :
          /\ req.op = "pdf"
          /\ inflight' = inflight \ {req}
          /\ \/ UNCHANGED error
             \/ error' = "Error generating PDF"
    /\ generating' = FALSE
    /\ UNCHANGED <<measured, startup, dashboard, component, scope, mounted, groupedStations,
                   withData, narrations, stored, written, everStored>>

\* What localStorage holds from an earlier session.
SavedBefore == {NoStorage, Stored([of |-> [s \in Stations |-> IF s = "s2" THEN "auto" ELSE ""],
                                   other |-> {}])}

InitEditor ==
    /\ table = {} /\ now = NowStart /\ tz = 0 /\ resp = NoResponse
    /\ reading = NoReading /\ derived = NoDerived /\ stats = NoStats
    /\ values = NoValues
    /\ NoReports
    /\ NotStarted /\ NotRendered
    /\ component \in {"first", "second"}
    /\ scope \in {"none", "chartRefs", "all"}
    /\ mounted = FALSE
    /\ groupedStations \in StationSets
    /\ withData \in SUBSET Stations
    /\ narrations = NoNarrations
    /\ stored \in SavedBefore
    /\ written = stored.of
    /\ everStored = [s \in Stations |-> stored.of[s] # ""]
    /\ generating = FALSE
    /\ inflight = {}
    /\ error = ""

NextEditor ==
    \/ Mount \/ SelectStations \/ HandleNarrationChange
    \/ RequestAnalysis \/ CompleteAnalysis \/ GenerateAutoNarrations
    \/ GenerateNarration \/ HandleGeneratePDF \/ CompletePDF

SpecEditor == InitEditor /\ [][NextEditor]_vars

\* The editor while App keeps showing the same stations.
NextEdits ==
    \/ Mount \/ HandleNarrationChange
    \/ RequestAnalysis \/ CompleteAnalysis \/ GenerateAutoNarrations
    \/ GenerateNarration \/ HandleGeneratePDF \/ CompletePDF

SpecEdits == InitEditor /\ [][NextEdits]_vars

\* Every request the editor makes settles.
SpecEditorLive ==
    /\ SpecEditor
    /\ WF_vars(CompleteAnalysis) /\ WF_vars(CompletePDF)

(***************************** claims: the report editor ********************)
\* C21: after any interleaving of manual edits, auto-generation requests and
\* their completions, the narration held for each station shown is the
\* content of the most recent write to that station.
C21_LastWriteWinsPerStation ==
    mounted => \A s \in groupedStations : narrations.of[s] = written[s]

C30_StoredNarrationsSurvive ==
    \A s \in Stations : everStored[s] => (stored.present /\ stored.of[s] = written[s])

(***************************** the dashboard ********************************)
\* App (ReportEditor.js from line 1369 on; App.js is an earlier version).
\* selected is the state of the selects and date fields, fetchData what the
\* memoized fetchData captured when it was last re-created, requests the
\* axios requests in flight, issued the number of data requests made.
MaxRequests == 3
TimePeriods == {"24h", "7d", "custom"}
DefaultStartDate == "2025-02-03"
DefaultEndDate == "2025-03-04"
StartDates == {DefaultStartDate, "2025-02-10"}
EndDates == {DefaultEndDate, "2025-02-20"}

\* fetchData, lines 1464-1479: what the request carries.
QueryOf(sel) ==
    IF sel.period = "custom" /\ sel.startDate # "" /\ sel.endDate # ""
    THEN sel
    ELSE [sel EXCEPT !.startDate = "", !.endDate = ""]

DataRequest(n, sel) == [kind |-> "data", n |-> n, query |-> QueryOf(sel)]
BaseStationsRequest(sel) ==
    [kind |-> "baseStations", n |-> 0,
     query |-> [InitialSelection EXCEPT !.station = sel.station]]

\* Lines 1455-1457 and 1534-1536: a dependency of fetchData changed, the
\* callback is re-created from the state of this render and the effect
\* calls it.  others are the requests the same render starts besides.
Refetch(sel, others) ==
    /\ selected' = sel
    /\ fetchData' = sel
    /\ issued' = issued + 1
    /\ requests' = requests \cup {DataRequest(issued + 1, sel)} \cup others
    /\ view' = [view EXCEPT !.loading = TRUE, !.error = "", !.errorFrom = 0]

\* Lines 1569-1587: the spinner or the error alert is rendered in place of
\* the selects.
ControlsShown == ~(view.loading /\ view.data = "null") /\ view.error = ""

\* The first render: both effects run.
RenderApp ==
    /\ issued = 0
    /\ Refetch(selected, {BaseStationsRequest(selected)})
    /\ UNCHANGED <<measured, startup, editor>>

\* handleStationChange, lines 1557-1559; the effects on selectedStation.
HandleStationChange ==
    /\ issued > 0 /\ issued < MaxRequests
    /\ ControlsShown
    /\ \E station \in Nodes \ {selected.station} :
          LET sel == [selected EXCEPT !.station = station]
          IN  Refetch(sel, {BaseStationsRequest(sel)})
    /\ UNCHANGED <<measured, startup, editor>>

\* handleBaseStationChange, lines 1561-1563
HandleBaseStationChange ==
    /\ issued > 0 /\ issued < MaxRequests
    /\ ControlsShown
    /\ \E bs \in BaseStations \ {selected.baseStation} :
          Refetch([selected EXCEPT !.baseStation = bs], {})
    /\ UNCHANGED <<measured, startup, editor>>

\* The Time Period select, lines 1641-1648: custom sets the default dates.
HandleTimePeriodChange ==
    /\ issued > 0 /\ issued < MaxRequests
    /\ ControlsShown
    /\ \E period \in TimePeriods \ {selected.period} :
          Refetch(IF period = "custom"
                  THEN [selected EXCEPT !.period = period,
                                        !.startDate = DefaultStartDate,
                                        !.endDate = DefaultEndDate]
                  ELSE [selected EXCEPT !.period = period], {})
    /\ UNCHANGED <<measured, startup, editor>>

\* The date fields, lines 1657-1676: setCustomStartDate / setCustomEndDate.
\* The dates are no dependency of fetchData (line 1528) nor of the effect
\* (line 1536): nothing is re-created and nothing is requested.
HandleDateChange ==
    /\ issued > 0
    /\ ControlsShown
    /\ selected.period = "custom"
    /\ \/ \E d \in StartDates \ {selected.startDate} :
             selected' = [selected EXCEPT !.startDate = d]
       \/ \E d \in EndDates \ {selected.endDate} :
             selected' = [selected EXCEPT !.endDate = d]
    /\ UNCHANGED <<measured, startup, editor, fetchData, requests, issued, view>>

\* fetchBaseStations, lines 1443-1453: the request settles and the first
\* base station (none on failure or for an empty list) is selected; when
\* that changes the selection, fetchData is re-created and called.
BaseStationsRespond ==
    /\ \E req \in requests :
          /\ req.kind = "baseStations"
          /\ \E first \in {"b1", ""} :
                IF first = selected.baseStation
                THEN /\ requests' = requests \ {req}
                     /\ UNCHANGED <<selected, fetchData, issued, view>>
                ELSE /\ issued < MaxRequests
                     /\ selected' = [selected EXCEPT !.baseStation = first]
                     /\ fetchData' = selected'
                     /\ issued' = issued + 1
                     /\ requests' = (requests \ {req}) \cup {DataRequest(issued + 1, selected')}
                     /\ view' = [view EXCEPT !.loading = TRUE, !.error = "", !.errorFrom = 0]
    /\ UNCHANGED <<measured, startup, editor>>

\* fetchData, lines 1485-1527: the request settles: rows, 404, or failure.
DataRespond ==
    /\ \E req \in requests :
          /\ req.kind = "data"
          /\ requests' = requests \ {req}
          /\ \/ view' = [view EXCEPT !.data = "rows", !.from = req.n, !.loading = FALSE]
             \/ view' = [view EXCEPT !.data = "empty", !.from = req.n, !.loading = FALSE,
                                     !.error = "No data available", !.errorFrom = req.n]
             \/ view' = [view EXCEPT !.data = "empty", !.from = req.n, !.loading = FALSE,
                                     !.error = "Failed to fetch data", !.errorFrom = req.n]
    /\ UNCHANGED <<measured, startup, editor, selected, fetchData, issued>>

InitDashboard ==
    /\ table = {} /\ now = NowStart /\ tz = 0 /\ resp = NoResponse
    /\ reading = NoReading /\ derived = NoDerived /\ stats = NoStats
    /\ values = NoValues
    /\ NoReports
    /\ NotStarted /\ NotMounted /\ NotRendered

NextDashboard ==
    \/ RenderApp \/ HandleStationChange \/ HandleBaseStationChange
    \/ HandleTimePeriodChange \/ HandleDateChange
    \/ BaseStationsRespond \/ DataRespond

SpecDashboard == InitDashboard /\ [][NextDashboard]_vars

\* Every request of the dashboard settles.
SpecDashboardLive ==
    /\ SpecDashboard
    /\ WF_vars(BaseStationsRespond) /\ WF_vars(DataRespond)

(***************************** claims: the dashboard ************************)
DataRequests == {req \in requests : req.kind = "data"}

\* C28: once every data request has completed, the dashboard shows the
\* outcome of the request issued last: its data, and no error of an
\* earlier request.
C28_LatestRequestShown ==
    (issued > 0 /\ DataRequests = {}) =>
        /\ view.from = issued
        /\ view.error # "" => view.errorFrom = issued

DatesRequested ==
    selected.period = "custom" =>
        /\ fetchData.period = "custom"
        /\ fetchData.startDate = selected.startDate
        /\ fetchData.endDate = selected.endDate

====
